---- MODULE Spec2Model ----
(***************************************************************************)
(* A model of the retrieval pipeline of SutraQuery: the two vector stores  *)
(* (services/vector_store.py, services/faiss_vector_store.py), the         *)
(* embedder and generator client (services/api_client.py) and the          *)
(* orchestrator (services/rag_service.py).                                 *)
(*                                                                         *)
(* Text is modelled as a sequence of one-character strings, so that        *)
(* Python's substring test, lower(), strip() and the whitespace regex are  *)
(* computed on characters.  The character "^" stands for a lone surrogate  *)
(* code point (a str that str.encode() refuses); the value NotAStr stands  *)
(* for a question that is no str at all (None, a number).                  *)
(***************************************************************************)
EXTENDS Integers, Sequences, FiniteSets, TLC

----------------------------------------------------------------------------
(* Text primitives                                                         *)

NotAStr == <<"<not a str>">>

Whitespace == {" ", "\n", "\t"}

UpperCase ==
  ("A" :> "a") @@ ("B" :> "b") @@ ("C" :> "c") @@ ("D" :> "d") @@ ("E" :> "e") @@
  ("F" :> "f") @@ ("G" :> "g") @@ ("H" :> "h") @@ ("I" :> "i") @@ ("J" :> "j") @@
  ("K" :> "k") @@ ("L" :> "l") @@ ("M" :> "m") @@ ("N" :> "n") @@ ("O" :> "o") @@
  ("P" :> "p") @@ ("Q" :> "q") @@ ("R" :> "r") @@ ("S" :> "s") @@ ("T" :> "t") @@
  ("U" :> "u") @@ ("V" :> "v") @@ ("W" :> "w") @@ ("X" :> "x") @@ ("Y" :> "y") @@
  ("Z" :> "z")

\* str.lower()
Lower(s) ==
  [i \in 1..Len(s) |-> IF s[i] \in DOMAIN UpperCase THEN UpperCase[s[i]] ELSE s[i]]

\* Python's "k in s" for strings
Contains(s, k) ==
  \E i \in 0..(Len(s) - Len(k)) : SubSeq(s, i + 1, i + Len(k)) = k

\* any(keyword in s for keyword in keywords)
AnyIn(keywords, s) == \E k \in keywords : Contains(s, k)

\* str.strip()
Strip(s) ==
  LET keep == {i \in 1..Len(s) : s[i] \notin Whitespace}
      first == CHOOSE i \in keep : \A j \in keep : i <= j
      last == CHOOSE i \in keep : \A j \in keep : j <= i
  IN  IF keep = {} THEN << >> ELSE SubSeq(s, first, last)

\* re.sub(r'\s+', ' ', s)
RECURSIVE CollapseWhitespace(_)
CollapseWhitespace(s) ==
  IF s = << >> THEN << >>
  ELSE IF Head(s) \in Whitespace
       THEN IF Len(s) > 1 /\ s[2] \in Whitespace
            THEN CollapseWhitespace(Tail(s))
            ELSE <<" ">> \o CollapseWhitespace(Tail(s))
       ELSE <<Head(s)>> \o CollapseWhitespace(Tail(s))

\* str.encode() raises UnicodeEncodeError on a lone surrogate
Encodable(s) == \A i \in 1..Len(s) : s[i] # "^"

----------------------------------------------------------------------------
(* RAGService._is_hindu_text_related: the keyword lists                    *)

hindu_keywords ==
  { <<"k","r","i","s","h","n","a">>,
    <<"r","a","m","a">>,
    <<"r","a","m">>,
    <<"s","i","t","a">>,
    <<"h","a","n","u","m","a","n">>,
    <<"a","r","j","u","n","a">>,
    <<"d","h","a","r","m","a">>,
    <<"k","a","r","m","a">>,
    <<"y","o","g","a">>,
    <<"m","e","d","i","t","a","t","i","o","n">>,
    <<"b","h","a","g","a","v","a","d">>,
    <<"g","i","t","a">>,
    <<"r","a","m","a","y","a","n","a">>,
    <<"m","a","h","a","b","h","a","r","a","t","a">>,
    <<"v","e","d","a","s">>,
    <<"u","p","a","n","i","s","h","a","d","s">>,
    <<"s","a","n","s","k","r","i","t">>,
    <<"m","o","k","s","h","a">>,
    <<"n","i","r","v","a","n","a">>,
    <<"h","i","n","d","u">>,
    <<"h","i","n","d","u","i","s","m">>,
    <<"s","p","i","r","i","t","u","a","l">>,
    <<"s","o","u","l">>,
    <<"a","t","m","a","n">>,
    <<"b","r","a","h","m","a","n">>,
    <<"v","i","s","h","n","u">>,
    <<"s","h","i","v","a">>,
    <<"g","a","n","e","s","h","a">>,
    <<"d","e","v","i">>,
    <<"g","o","d","d","e","s","s">>,
    <<"g","o","d">>,
    <<"d","i","v","i","n","e">>,
    <<"s","a","c","r","e","d">>,
    <<"h","o","l","y">>,
    <<"t","e","m","p","l","e">>,
    <<"p","r","a","y","e","r">>,
    <<"m","a","n","t","r","a">>,
    <<"o","m">>,
    <<"a","u","m">>,
    <<"p","a","t","a","n","j","a","l","i">>,
    <<"s","a","g","e">>,
    <<"g","u","r","u">>,
    <<"a","s","h","r","a","m">>,
    <<"v","e","r","s","e">>,
    <<"c","h","a","p","t","e","r">>,
    <<"s","h","l","o","k","a">>,
    <<"s","u","t","r","a">>,
    <<"p","h","i","l","o","s","o","p","h","y">>,
    <<"t","r","u","t","h">>,
    <<"c","o","n","s","c","i","o","u","s","n","e","s","s">>,
    <<"d","e","v","o","t","i","o","n">>,
    <<"w","o","r","s","h","i","p">>,
    <<"f","a","i","t","h">>,
    <<"r","i","g","h","t","e","o","u","s">>,
    <<"s","i","n">>,
    <<"v","i","r","t","u","e">>,
    <<"e","t","h","i","c","s">>,
    <<"d","u","t","y">>,
    <<"l","i","f","e">>,
    <<"d","e","a","t","h">>,
    <<"r","e","b","i","r","t","h">>,
    <<"p","u","r","p","o","s","e">>,
    <<"p","e","a","c","e">>,
    <<"h","a","p","p","i","n","e","s","s">>,
    <<"s","u","f","f","e","r","i","n","g">>,
    <<"w","i","s","d","o","m">>,
    <<"d","a","s","h","a","r","a","t","h","a">>,
    <<"p","i","t","a">>,
    <<"m","a","t","a">>,
    <<"f","a","t","h","e","r">>,
    <<"m","o","t","h","e","r">>,
    <<"s","o","n">>,
    <<"d","a","u","g","h","t","e","r">>,
    <<"b","r","o","t","h","e","r">>,
    <<"s","i","s","t","e","r">>,
    <<"w","i","f","e">>,
    <<"h","u","s","b","a","n","d">>,
    <<"b","h","a","r","a","t">>,
    <<"l","a","k","s","h","m","a","n","a">>,
    <<"s","h","a","t","r","u","g","h","n","a">>,
    <<"k","a","i","k","e","y","i">>,
    <<"k","a","u","s","a","l","y","a">>,
    <<"s","u","m","i","t","r","a">>,
    <<"r","a","v","a","n","a">>,
    <<"l","a","k","s","h","m","a","n">>,
    <<"b","h","a","r","a","t","a">>,
    <<"m","a","n","d","o","d","a","r","i">>,
    <<"s","u","r","p","a","n","a","k","h","a">>,
    <<"k","u","m","b","h","a","k","a","r","n","a">>,
    <<"v","i","b","h","i","s","h","a","n","a">>,
    <<"p","a","n","d","a","v","a">>,
    <<"k","a","u","r","a","v","a">>,
    <<"d","r","a","u","p","a","d","i">>,
    <<"y","u","d","h","i","s","h","t","h","i","r","a">>,
    <<"b","h","i","m","a">>,
    <<"n","a","k","u","l","a">>,
    <<"s","a","h","a","d","e","v","a">>,
    <<"d","u","r","y","o","d","h","a","n","a">>,
    <<"d","u","s","h","a","s","a","n","a">>,
    <<"s","h","a","k","u","n","i">>,
    <<"g","a","n","d","h","a","r","i">>,
    <<"k","u","n","t","i">>,
    <<"m","a","d","r","i">>,
    <<"p","a","n","d","u">>,
    <<"d","h","r","i","t","a","r","a","s","h","t","r","a">> }

modern_keywords ==
  { <<"s","a","l","m","a","n"," ","k","h","a","n">>,
    <<"a","k","s","h","a","y"," ","k","u","m","a","r">>,
    <<"s","h","a","h"," ","r","u","k","h"," ","k","h","a","n">>,
    <<"b","o","l","l","y","w","o","o","d">>,
    <<"a","c","t","o","r">>,
    <<"a","c","t","r","e","s","s">>,
    <<"m","o","v","i","e">>,
    <<"f","i","l","m">>,
    <<"c","r","i","c","k","e","t">>,
    <<"p","o","l","i","t","i","c","s">>,
    <<"p","o","l","i","t","i","c","i","a","n">>,
    <<"p","r","e","s","i","d","e","n","t">>,
    <<"p","r","i","m","e"," ","m","i","n","i","s","t","e","r">>,
    <<"c","o","v","i","d">>,
    <<"c","o","r","o","n","a","v","i","r","u","s">>,
    <<"t","e","c","h","n","o","l","o","g","y">>,
    <<"c","o","m","p","u","t","e","r">>,
    <<"i","n","t","e","r","n","e","t">>,
    <<"f","a","c","e","b","o","o","k">>,
    <<"i","n","s","t","a","g","r","a","m">>,
    <<"w","h","a","t","s","a","p","p">>,
    <<"t","w","i","t","t","e","r">>,
    <<"s","t","o","c","k"," ","m","a","r","k","e","t">>,
    <<"c","r","y","p","t","o","c","u","r","r","e","n","c","y">>,
    <<"b","i","t","c","o","i","n">>,
    <<"b","u","s","i","n","e","s","s">>,
    <<"c","o","m","p","a","n","y">>,
    <<"s","t","a","r","t","u","p">>,
    <<"s","p","o","r","t","s">>,
    <<"f","o","o","t","b","a","l","l">>,
    <<"t","e","n","n","i","s">>,
    <<"o","l","y","m","p","i","c","s">>,
    <<"i","p","l">>,
    <<"m","a","t","c","h">>,
    <<"s","c","o","r","e">> }

hindi_patterns ==
  { <<"k","y","a"," ","n","a","a","m">>,
    <<"k","a","u","n">>,
    <<"k","a","h","a","n">>,
    <<"k","a","i","s","e">>,
    <<"k","y","u","n">>,
    <<"k","y","a">>,
    <<"k","i">>,
    <<"k","a">>,
    <<"k","e">>,
    <<"n","a","a","m"," ","t","h","a">>,
    <<"n","a","a","m"," ","h","a","i">>,
    <<"k","o","n"," ","t","h","a">>,
    <<"k","o","n"," ","h","a","i">>,
    <<"k","a","h","a","n"," ","t","h","a">>,
    <<"k","a","h","a","n"," ","h","a","i">> }

spiritual_patterns ==
  { <<"w","h","a","t"," ","i","s">>,
    <<"h","o","w"," ","t","o">>,
    <<"m","e","a","n","i","n","g">>,
    <<"s","i","g","n","i","f","i","c","a","n","c","e">>,
    <<"t","e","a","c","h","i","n","g">>,
    <<"p","u","r","p","o","s","e"," ","o","f">>,
    <<"w","h","y"," ","d","o">>,
    <<"h","o","w"," ","c","a","n">>,
    <<"w","h","a","t"," ","d","o","e","s">>,
    <<"t","e","l","l"," ","m","e"," ","a","b","o","u","t">>,
    <<"e","x","p","l","a","i","n">>,
    <<"d","e","s","c","r","i","b","e">>,
    <<"w","h","o"," ","i","s">>,
    <<"w","h","o"," ","w","a","s">>,
    <<"w","h","e","r","e"," ","i","s">>,
    <<"w","h","e","r","e"," ","w","a","s">>,
    <<"w","h","e","n"," ","d","i","d">> }

\* RAGService._is_hindu_text_related (a non-str question raises at .lower(),
\* which the caller models; here question is a str)
MutIsHinduTextRelated_NoOffTopicVeto(question) ==
  LET question_lower == Lower(question)
  IN  \/ AnyIn(hindu_keywords, question_lower)
      \/ (AnyIn(hindi_patterns, question_lower) /\ Len(Strip(question)) > 5)
      \/ (AnyIn(spiritual_patterns, question_lower) /\ Len(Strip(question)) > 10)

IsHinduTextRelated(question) ==
  LET question_lower == Lower(question)
      has_hindu_keywords == AnyIn(hindu_keywords, question_lower)
      has_modern_keywords == AnyIn(modern_keywords, question_lower)
      has_hindi_patterns == AnyIn(hindi_patterns, question_lower)
      has_spiritual_patterns == AnyIn(spiritual_patterns, question_lower)
  IN  IF has_modern_keywords THEN FALSE
      ELSE \/ has_hindu_keywords
           \/ (has_hindi_patterns /\ Len(Strip(question)) > 5)
           \/ (has_spiritual_patterns /\ Len(Strip(question)) > 10)

\* TextNormalizer.normalize_query
NormalizeQuery(query) ==
  IF query = << >> THEN query
  ELSE CollapseWhitespace(Strip(Lower(query)))

----------------------------------------------------------------------------
(* The texts of the model                                                  *)

TextDuty == <<"d","h","a","r","m","a"," ","i","s"," ","d","u","t","y">>   \* "dharma is duty"
TextYoga == <<"y","o","g","a"," ","s","t","i","l","l","s"," ","t","h","e"," ","m","i","n","d">>   \* "yoga stills the mind"
TextRama == <<"r","a","m","a"," ","i","s"," ","t","h","e"," ","s","o","n"," ","o","f"," ","d","a","s","h","a","r","a","t","h","a">>   \* "rama is the son of dasharatha"
TextWar == <<"t","h","e"," ","w","a","r">>   \* "the war"

QDharma == <<"W","h","a","t"," ","i","s"," ","d","h","a","r","m","a","?">>   \* "What is dharma?"
QOm == <<" "," ","O","M"," ">>   \* "  OM "
QExplainShort == <<"E","x","p","l","a","i","n"," ","i","t">>   \* "Explain it"
QKaunHai == <<"k","a","u","n"," ","h","a","i">>   \* "kaun hai"
QHello == <<"h","e","l","l","o">>   \* "hello"
QCricket == <<"c","r","i","c","k","e","t"," ","s","c","o","r","e">>   \* "cricket score"
QCricketUpper == <<"I","s"," ","C","R","I","C","K","E","T"," ","d","h","a","r","m","a","?">>   \* "Is CRICKET dharma?"
QSurrogate == <<"r","a","m","a"," ","^">>   \* "rama ^"

\* f"chapter {chapter} verse {verse}", the text search_by_verse embeds
VerseQuery(chapter, verse) ==
  <<"c","h","a","p","t","e","r"," ">> \o chapter \o <<" ","v","e","r","s","e"," ">> \o verse

\* f"{chapter}.{verse}"
VerseId(chapter, verse) == chapter \o <<".">> \o verse

\* the (chapter, verse) pairs asked of search_by_verse: the verse of
\* DocDuty, the verse of DocRama, a verse no document has, and a chapter
\* that cannot be encoded
VerseRefs ==
  { << <<"2">>, <<"4","7">> >>, << <<"1">>, <<"1">> >>, << <<"9">>, <<"9">> >>,
    << <<"^">>, <<"1">> >> }

\* the questions put to search_and_answer that are a str
StrQuestions ==
  { QDharma, QOm, QKaunHai, QExplainShort, QHello, QCricket, QCricketUpper,
    QSurrogate }

\* the texts the model embeds: the documents' texts and the normalised questions
Texts ==
  {TextDuty, TextYoga, TextRama, TextWar} \cup {NormalizeQuery(q) : q \in StrQuestions}
    \cup {VerseQuery(ref[1], ref[2]) : ref \in VerseRefs}

\* the gate's verdict on each question, evaluated once
Related == [q \in StrQuestions |-> IsHinduTextRelated(q)]

----------------------------------------------------------------------------
(* Numbers and vectors                                                     *)
(*                                                                         *)
(* A component of a vector is held as an integer numerator over the fixed  *)
(* denominator 255 (the fallback embedding divides a byte by 255.0).  A    *)
(* vector is held packed, as [dim, cyc]: the vector of dim components      *)
(* whose i-th component is cyc[((i-1) % Len(cyc)) + 1].  Pack is lossless  *)
(* (an aperiodic list packs to itself).  The vectors drawn below have      *)
(* integral Euclidean norms, so L2 normalisation and cosine scores are     *)
(* exact rationals; float32 rounding is not modelled.                      *)

Min(a, b) == IF a <= b THEN a ELSE b
Max(a, b) == IF a >= b THEN a ELSE b
Abs(a) == IF a < 0 THEN -a ELSE a

RECURSIVE Gcd(_, _)
Gcd(a, b) == IF b = 0 THEN Abs(a) ELSE Gcd(b, a % b)

\* the rational num/den in lowest terms with a positive denominator
Rat(num, den) ==
  LET g == Gcd(Abs(num), Abs(den))
      s == IF den < 0 THEN -1 ELSE 1
  IN  [num |-> (s * num) \div g, den |-> (s * den) \div g]

RatLess(a, b) == a.num * b.den < b.num * a.den
RatLeq(a, b) == a.num * b.den <= b.num * a.den
RatAdd(a, b) == Rat(a.num * b.den + b.num * a.den, a.den * b.den)

\* the integer square root of n >= 0, by bisection of lo..hi
RECURSIVE IsqrtIn(_, _, _)
IsqrtIn(n, lo, hi) ==
  IF lo >= hi THEN lo
  ELSE LET mid == (lo + hi + 1) \div 2
       IN  IF mid * mid <= n THEN IsqrtIn(n, mid, hi) ELSE IsqrtIn(n, lo, mid - 1)

Isqrt(n) == IsqrtIn(n, 0, Min(n, 46340))

\* the least p >= from such that list repeats its first p components
RECURSIVE LeastPeriod(_, _)
LeastPeriod(list, from) ==
  IF \A i \in 1..Len(list) : list[i] = list[((i - 1) % from) + 1]
  THEN from
  ELSE LeastPeriod(list, from + 1)

Pack(list) ==
  IF list = << >> THEN [dim |-> 0, cyc |-> << >>]
  ELSE [dim |-> Len(list), cyc |-> SubSeq(list, 1, LeastPeriod(list, 1))]

At(v, i) == v.cyc[((i - 1) % Len(v.cyc)) + 1]

RECURSIVE SumProducts(_, _, _)
SumProducts(a, b, n) ==
  IF n = 0 THEN 0 ELSE At(a, n) * At(b, n) + SumProducts(a, b, n - 1)

\* inner product of two vectors of the same dimension
Dot(a, b) ==
  LET block == IF a.cyc = << >> \/ b.cyc = << >> THEN 0
               ELSE (Len(a.cyc) * Len(b.cyc)) \div Gcd(Len(a.cyc), Len(b.cyc))
  IN  IF block > 0 /\ a.dim % block = 0
      THEN (a.dim \div block) * SumProducts(a, b, block)
      ELSE SumProducts(a, b, a.dim)

\* np.linalg.norm, in units of 1/255
Norm(v) == Isqrt(Dot(v, v))

----------------------------------------------------------------------------
(* APIClient: the embedder                                                 *)

\* hashlib.md5(text.encode()).digest(): the hash is opaque to the program;
\* it is modelled as a fixed table from the texts of the model to 16 bytes.
Md5Digest(text) ==
  CASE text = NormalizeQuery(QDharma) -> <<2,2,1,4, 0,0,0,0, 0,0,0,0, 0,0,0,0>>
    [] text = NormalizeQuery(QOm)     -> <<0,0,0,0, 5,0,0,0, 0,0,0,0, 0,0,0,0>>
    [] text = NormalizeQuery(QKaunHai) -> <<4,2,2,1, 0,0,0,0, 0,0,0,0, 0,0,0,0>>
    [] text = TextDuty                -> <<1,2,2,4, 0,0,0,0, 0,0,0,0, 0,0,0,0>>
    [] text = TextYoga                -> <<2,1,4,2, 0,0,0,0, 0,0,0,0, 0,0,0,0>>
    [] text = TextRama                -> <<4,2,2,1, 0,0,0,0, 0,0,0,0, 0,0,0,0>>
    [] OTHER                          -> <<0,3,0,0, 0,0,4,0, 0,0,0,0, 0,0,0,0>>

\* .hexdigest(): two hexadecimal digits per byte, as digit values 0..15
Md5HexDigest(text) ==
  LET d == Md5Digest(text)
  IN  [i \in 1..(2 * Len(d)) |->
         IF i % 2 = 1 THEN d[(i + 1) \div 2] \div 16 ELSE d[i \div 2] % 16]

\* the padding loop of _get_embedding_openrouter:
\*   while len(embedding) < target: embedding.extend(embedding[:min(len, target - len)])
RECURSIVE PadTo(_, _)
PadTo(embedding, target) ==
  IF Len(embedding) < target
  THEN PadTo(embedding \o SubSeq(embedding, 1,
                                 Min(Len(embedding), target - Len(embedding))),
             target)
  ELSE embedding

HashDim == 1024
HashScale == 255

MutHashVector_StartsAtSecondByte(text_hash, dim) ==
  LET bytes == [k \in 1..(Len(text_hash) \div 2) |->
                  16 * text_hash[2 * k - 1] + text_hash[2 * k]]
      padded == PadTo(bytes, dim + 1)
  IN  SubSeq(padded, 2, dim + 1)

\* the body of _get_embedding_openrouter after the digest: the list of
\* numerators over HashScale, padded to `dim` and truncated to `dim`
HashVector(text_hash, dim) ==
  LET bytes == [k \in 1..(Len(text_hash) \div 2) |->
                  16 * text_hash[2 * k - 1] + text_hash[2 * k]]   \* int(hex_val, 16)
      padded == PadTo(bytes, dim)
  IN  SubSeq(padded, 1, Min(Len(padded), dim))

MutHashEmbedding_PadShort(text) ==
  IF ~Encodable(text) THEN [kind |-> "raise", value |-> Pack(<< >>)]
  ELSE [kind |-> "hash", value |-> Pack(HashVector(Md5HexDigest(text), 1000))]

\* APIClient._get_embedding_openrouter: [kind, value]; kind "raise" when
\* text.encode() raises (the except clause re-raises)
HashEmbedding(text) ==
  IF ~Encodable(text) THEN [kind |-> "raise", value |-> Pack(<< >>)]
  ELSE [kind |-> "hash", value |-> Pack(HashVector(Md5HexDigest(text), HashDim))]

\* _get_embedding_openrouter of each text of the model, evaluated once
HashEmbeddingOf == [text \in Texts |-> HashEmbedding(text)]

\* the embedding service's answers to one request
ApiResponses == {"ok", "429", "error"}

MistralDim == 1024

\* result["data"][0]["embedding"] of a 200 response of the mistral-embed model
ApiEmbedding(text) == [dim |-> MistralDim, cyc |-> <<Len(text), 1, 0, 2>>]

\* the retry loop of get_embedding from iteration `attempt` on; env[k] is the
\* service's answer to the k-th request; requests and slept accumulate
RECURSIVE EmbeddingAttempts(_, _, _, _, _, _)
EmbeddingAttempts(text, attempt, max_retries, env, requests, slept) ==
  IF attempt >= max_retries
  THEN \* the loop is exhausted: line 58
       HashEmbeddingOf[text] @@ [requests |-> requests, slept |-> slept]
  ELSE LET resp == env[attempt + 1]
       IN  CASE resp = "429" ->
                  EmbeddingAttempts(text, attempt + 1, max_retries, env, requests + 1,
                                    Append(slept, (2 ^ attempt) * 5))
             [] resp = "ok" ->
                  [kind |-> "api", value |-> ApiEmbedding(text),
                   requests |-> requests + 1, slept |-> slept]
             [] OTHER ->
                  IF attempt = max_retries - 1
                  THEN HashEmbeddingOf[text]
                         @@ [requests |-> requests + 1, slept |-> slept]
                  ELSE EmbeddingAttempts(text, attempt + 1, max_retries, env,
                                         requests + 1, Append(slept, 2))

DefaultMaxRetries == 3
DefaultUseApi == FALSE

MutGetEmbedding_RetryForever(text, use_api, max_retries, env) ==
  IF ~use_api THEN HashEmbeddingOf[text] @@ [requests |-> 0, slept |-> << >>]
  ELSE EmbeddingAttempts(text, 0, Len(env), env, 0, << >>)

\* APIClient.get_embedding: [kind, value, requests, slept]
GetEmbedding(text, use_api, max_retries, env) ==
  IF ~use_api THEN HashEmbeddingOf[text] @@ [requests |-> 0, slept |-> << >>]
  ELSE EmbeddingAttempts(text, 0, max_retries, env, 0, << >>)

----------------------------------------------------------------------------
(* Documents and the two vector stores                                     *)

NoFilter == "no-filter"         \* source_filter is None

\* a persisted file: absent, written with a content, or cut short by a write
\* that failed
Absent == [state |-> "absent", content |-> << >>]
Corrupt == [state |-> "corrupt", content |-> << >>]
Written(content) == [state |-> "written", content |-> content]

\* the payload kept for a document (the same eight fields on both backends)
Payload(doc) ==
  [text |-> doc.text, source |-> doc.source, chapter |-> doc.chapter,
   verse |-> doc.verse, sanskrit |-> doc.sanskrit,
   translation |-> doc.translation, explanation |-> doc.explanation,
   metadata |-> doc.metadata]

\* a search result: the payload's fields and the score
Result(payload, score) == payload @@ [score |-> score]

\* embedding / np.linalg.norm(embedding): the components are cyc[i] / norm
Normalize(v) == [dim |-> v.dim, cyc |-> v.cyc, norm |-> Norm(v)]

\* inner product of two normalised vectors (the cosine of the raw vectors)
Cosine(a, b) == Rat(Dot(a, b), a.norm * b.norm)

\* the positions 1..Len(scores), best score first; equal scores keep the
\* order of the positions
RECURSIVE BestFirst(_, _)
BestFirst(scores, left) ==
  IF left = {} THEN << >>
  ELSE LET best == CHOOSE i \in left :
                     \A j \in left : \/ RatLess(scores[j], scores[i])
                                     \/ (scores[j] = scores[i] /\ i <= j)
       IN  <<best>> \o BestFirst(scores, left \ {best})

Take(seq, n) == SubSeq(seq, 1, Min(Len(seq), Max(n, 0)))

EmbeddingDim == 1024

\* FaissVectorStore._save_index under the disk's behaviour `disk`:
\*   "ok"            both files are written;
\*   "index_fails"   faiss.write_index raises: the metadata file is not touched;
\*   "metadata_fails" the index file is written, then opening or dumping the
\*                   metadata file raises.
\* `cut` tells whether the failing write left a file cut short behind.
SaveIndex(index, metadata, files, disk, cut) ==
  CASE disk = "ok" -> [index |-> Written(index), metadata |-> Written(metadata)]
    [] disk = "index_fails" ->
         [index |-> IF cut THEN Corrupt ELSE files.index, metadata |-> files.metadata]
    [] OTHER ->
         [index |-> Written(index), metadata |-> IF cut THEN Corrupt ELSE files.metadata]

\* FaissVectorStore.__init__ over the persisted files: the fresh index and
\* the empty list, then _load_index.  Both files are read only when both
\* exist; a file that cannot be read or parsed raises, and the except clause
\* leaves the store empty.  The two contents are taken as they are.
LoadIndex(files) ==
  IF files.index.state = "absent" \/ files.metadata.state = "absent"
  THEN [index |-> << >>, metadata |-> << >>, files |-> files]
  ELSE IF files.index.state = "corrupt" \/ files.metadata.state = "corrupt"
  THEN [index |-> << >>, metadata |-> << >>, files |-> files]
  ELSE [index |-> files.index.content, metadata |-> files.metadata.content,
        files |-> files]

\* documents of the batch that have an "embedding" key
HasEmbedding(doc) == "embedding" \in DOMAIN doc
WithEmbedding(documents) == SelectSeq(documents, HasEmbedding)

MutFaissAddDocuments_MetadataFirst(store, documents, disk, cut) ==
  LET docs == WithEmbedding(documents)
      embeddings == [i \in 1..Len(docs) |-> Normalize(docs[i].embedding)]
      metadata_batch == [i \in 1..Len(docs) |-> Payload(docs[i])]
      mismatch == \E i \in 1..Len(docs) : docs[i].embedding.dim # EmbeddingDim
  IN  IF docs = << >> THEN [store |-> store, raised |-> FALSE]
      ELSE IF mismatch
      THEN [store |-> [store EXCEPT !.metadata = store.metadata \o metadata_batch],
            raised |-> TRUE]
      ELSE LET index == store.index \o embeddings
               metadata == store.metadata \o metadata_batch
           IN  [store |-> [index |-> index, metadata |-> metadata,
                           files |-> SaveIndex(index, metadata, store.files, disk, cut)],
                raised |-> FALSE]

MutFaissAddDocuments_KeepsRightDimension(store, documents, disk, cut) ==
  LET docs == WithEmbedding(documents)
      right == SelectSeq(docs, LAMBDA doc : doc.embedding.dim = EmbeddingDim)
      index == store.index \o [i \in 1..Len(right) |-> Normalize(right[i].embedding)]
      metadata == store.metadata \o [i \in 1..Len(right) |-> Payload(right[i])]
  IN  IF docs = << >> THEN [store |-> store, raised |-> FALSE]
      ELSE [store |-> [index |-> index, metadata |-> metadata,
                       files |-> SaveIndex(index, metadata, store.files, disk, cut)],
            raised |-> Len(right) < Len(docs)]

\* FaissVectorStore.add_documents: [store, raised].  The batch raises, before
\* anything is stored, when np.array meets rows of different lengths or
\* index.add meets a dimension other than the index's.
FaissAddDocuments(store, documents, disk, cut) ==
  LET docs == WithEmbedding(documents)
      embeddings == [i \in 1..Len(docs) |-> Normalize(docs[i].embedding)]
      metadata_batch == [i \in 1..Len(docs) |-> Payload(docs[i])]
      mismatch == \E i \in 1..Len(docs) : docs[i].embedding.dim # EmbeddingDim
  IN  IF docs = << >> THEN [store |-> store, raised |-> FALSE]
      ELSE IF mismatch THEN [store |-> store, raised |-> TRUE]
      ELSE LET index == store.index \o embeddings
               metadata == store.metadata \o metadata_batch
           IN  [store |-> [index |-> index, metadata |-> metadata,
                           files |-> SaveIndex(index, metadata, store.files, disk, cut)],
                raised |-> FALSE]

RECURSIVE MutFaissCollect_NoBreak(_, _, _, _, _, _)
MutFaissCollect_NoBreak(hits, scores, metadata, limit, source_filter, results) ==
  IF hits = << >> THEN results
  ELSE LET idx == Head(hits)
           keep == /\ idx <= Len(metadata)
                   /\ ~(source_filter \notin {NoFilter, ""}
                        /\ metadata[idx].source # source_filter)
           next == IF keep THEN Append(results, Result(metadata[idx], scores[idx]))
                   ELSE results
       IN  MutFaissCollect_NoBreak(Tail(hits), scores, metadata, limit, source_filter, next)

\* the loop of FaissVectorStore.search over the hits of index.search
RECURSIVE FaissCollect(_, _, _, _, _, _)
FaissCollect(hits, scores, metadata, limit, source_filter, results) ==
  IF hits = << >> THEN results
  ELSE LET idx == Head(hits)
           keep == /\ idx <= Len(metadata)
                   /\ ~(source_filter \notin {NoFilter, ""}
                        /\ metadata[idx].source # source_filter)
           next == IF keep THEN Append(results, Result(metadata[idx], scores[idx]))
                   ELSE results
       IN  IF keep /\ Len(next) >= limit THEN next
           ELSE FaissCollect(Tail(hits), scores, metadata, limit, source_filter, next)

\* the try block of FaissVectorStore.search, as [raised, results]:
\* index.search raises on k = 0 and on a query of another dimension
FaissSearchTry(store, query_embedding, limit, source_filter) ==
  LET ntotal == Len(store.index)
      k == Min(limit * 2, ntotal)
      query_vec == Normalize(query_embedding)
      scores == [i \in 1..ntotal |-> Cosine(query_vec, store.index[i])]
      hits == Take(BestFirst(scores, 1..ntotal), k)
  IN  IF ntotal = 0 THEN [raised |-> FALSE, results |-> << >>]
      ELSE IF query_embedding.dim # EmbeddingDim \/ k <= 0
      THEN [raised |-> TRUE, results |-> << >>]
      ELSE [raised |-> FALSE,
            results |-> FaissCollect(hits, scores, store.metadata, limit,
                                     source_filter, << >>)]

MutFaissSearch_NoExcept(store, query_embedding, limit, source_filter) ==
  FaissSearchTry(store, query_embedding, limit, source_filter)

\* FaissVectorStore.search, as [raised, results]: the except clause answers
\* [] for whatever the try block raised
FaissSearch(store, query_embedding, limit, source_filter) ==
  LET r == FaissSearchTry(store, query_embedding, limit, source_filter)
  IN  IF r.raised THEN [raised |-> FALSE, results |-> << >>] ELSE r

MutFaissClearCollection_KeepsIndex(store, disk, cut) ==
  [index |-> store.index, metadata |-> << >>,
   files |-> SaveIndex(store.index, << >>, store.files, disk, cut)]

\* FaissVectorStore.clear_collection: the store after the call
FaissClearCollection(store, disk, cut) ==
  [index |-> << >>, metadata |-> << >>,
   files |-> SaveIndex(<< >>, << >>, store.files, disk, cut)]

\* FaissVectorStore.get_collection_info
FaissCollectionInfo(store) ==
  [vectors_count |-> Len(store.index), indexed_vectors_count |-> Len(store.index),
   points_count |-> Len(store.metadata), status |-> "available"]

----------------------------------------------------------------------------
(* VectorStore: the managed (Qdrant) backend.  The collection is a function *)
(* from point ids to points; the service computes cosine similarity.  The   *)
(* orchestrator keeps a VectorStore only when is_available is true, so the  *)
(* early returns for an unavailable store are not modelled.                 *)

BatchSize == 100
SimilarityThresholdPercent == 65

SimilarityThreshold == Rat(SimilarityThresholdPercent, 100)

\* client.upsert of one batch: a point replaces the point of the same id
Upsert(points, batch) ==
  [id \in (DOMAIN points) \cup {batch[i].id : i \in 1..Len(batch)} |->
     IF \E i \in 1..Len(batch) : batch[i].id = id
     THEN LET i == CHOOSE j \in 1..Len(batch) :
                     /\ batch[j].id = id
                     /\ \A m \in 1..Len(batch) : batch[m].id = id => m <= j
          IN  [vector |-> Normalize(batch[i].vector), payload |-> batch[i].payload]
     ELSE points[id]]

\* the batch loop of VectorStore.add_documents from position `from` on (a
\* position of `points_list`, 1-based); the upsert of the batch numbered
\* fail_at fails (0: none does), as does the upsert of a batch holding a
\* vector of another dimension than the collection's
RECURSIVE UpsertBatches(_, _, _, _, _)
UpsertBatches(collection, points_list, from, batch_no, fail_at) ==
  IF from > Len(points_list) THEN [qdrant |-> collection, raised |-> FALSE]
  ELSE LET batch == SubSeq(points_list, from, Min(from + BatchSize - 1, Len(points_list)))
           rejected == \/ ~collection.exists
                       \/ batch_no = fail_at
                       \/ \E i \in 1..Len(batch) : batch[i].vector.dim # EmbeddingDim
       IN  IF rejected THEN [qdrant |-> collection, raised |-> TRUE]
           ELSE UpsertBatches([collection EXCEPT !.points = Upsert(collection.points, batch)],
                              points_list, from + BatchSize, batch_no + 1, fail_at)

\* VectorStore.add_documents: [qdrant, raised].  doc["embedding"] raises
\* KeyError for a document without embedding, before any upload; the point
\* ids are the positions in this call's list.
QdrantAddDocuments(collection, documents, fail_at) ==
  IF \E i \in 1..Len(documents) : ~HasEmbedding(documents[i])
  THEN [qdrant |-> collection, raised |-> TRUE]
  ELSE LET points_list == [i \in 1..Len(documents) |->
                             [id |-> i - 1, vector |-> documents[i].embedding,
                              payload |-> Payload(documents[i])]]
       IN  UpsertBatches(collection, points_list, 1, 1, fail_at)

\* the ids of a set, as a sequence in increasing order
RECURSIVE Ascending(_)
Ascending(ids) ==
  IF ids = {} THEN << >>
  ELSE LET least == CHOOSE i \in ids : \A j \in ids : i <= j
       IN  <<least>> \o Ascending(ids \ {least})

\* the try block of VectorStore.search, as [raised, results]; `ok` is
\* whether the service answers the request.  A failed request, a missing
\* collection, a query of another dimension and a limit the service rejects
\* make client.search raise.
QdrantSearchTry(collection, query_embedding, limit, source_filter, ok) ==
  IF ~ok \/ ~collection.exists \/ query_embedding.dim # EmbeddingDim \/ limit <= 0
  THEN [raised |-> TRUE, results |-> << >>]
  ELSE LET ids == Ascending(DOMAIN collection.points)
           query_vec == Normalize(query_embedding)
           scores == [i \in 1..Len(ids) |->
                        Cosine(query_vec, collection.points[ids[i]].vector)]
           passes == {i \in 1..Len(ids) :
                        /\ (\/ source_filter \in {NoFilter, ""}
                            \/ collection.points[ids[i]].payload.source = source_filter)
                        /\ RatLeq(SimilarityThreshold, scores[i])}
           hits == Take(BestFirst(scores, passes), limit)
       IN  [raised |-> FALSE,
            results |-> [n \in 1..Len(hits) |->
                           Result(collection.points[ids[hits[n]]].payload,
                                  scores[hits[n]])]]

MutQdrantSearch_NoExcept(collection, query_embedding, limit, source_filter, ok) ==
  QdrantSearchTry(collection, query_embedding, limit, source_filter, ok)

\* VectorStore.search, as [raised, results]: the except clause answers [] for
\* whatever the try block raised
QdrantSearch(collection, query_embedding, limit, source_filter, ok) ==
  LET r == QdrantSearchTry(collection, query_embedding, limit, source_filter, ok)
  IN  IF r.raised THEN [raised |-> FALSE, results |-> << >>] ELSE r

\* VectorStore.get_collection_info; when client.get_collection raises (the
\* service does not answer, the collection is missing) the except clause
\* answers {}
QdrantCollectionInfo(collection, ok) ==
  IF ~ok \/ ~collection.exists THEN << >>
  ELSE LET n == Cardinality(DOMAIN collection.points)
       IN  [vectors_count |-> n, indexed_vectors_count |-> n, points_count |-> n,
            status |-> "green"]

\* VectorStore.clear_collection under the service's behaviour `service`:
\* "ok", "delete_fails" (nothing happens) or "create_fails" (the collection is
\* deleted and not created again); both failures raise
QdrantClearCollection(collection, service) ==
  CASE service = "ok" -> [qdrant |-> [exists |-> TRUE, points |-> << >>], raised |-> FALSE]
    [] service = "delete_fails" -> [qdrant |-> collection, raised |-> TRUE]
    [] OTHER -> [qdrant |-> [exists |-> FALSE, points |-> << >>], raised |-> TRUE]

----------------------------------------------------------------------------
(* RAGService: the orchestrator                                            *)

OffTopicAnswer == "I can only answer questions about Hindu religious texts ..."
NoInformationAnswer == "Based on the available texts, I cannot find relevant information ..."
RetryAnswer == "I encountered an issue while searching for your answer. ..."
DegradedAnswer == "I'm unable to generate an answer right now because the AI service is temporarily unavailable. ..."
GeneratedAnswer == "<the text the completion service returned>"

Zero == Rat(0, 1)

SearchLimit == 20
ContextTop == 5

\* RAGService._format_context_entry: the lines of one context block
FormatContextEntry(result) ==
  (IF result.chapter # "" /\ result.verse # ""
   THEN << <<"Source", result.source, "Chapter", result.chapter, "Verse", result.verse>> >>
   ELSE << <<"Source", result.source>> >>)
  \o (IF result.sanskrit # "" THEN << <<"Sanskrit", result.sanskrit>> >> ELSE << >>)
  \o (IF result.translation # "" THEN << <<"Translation", result.translation>> >> ELSE << >>)
  \o (IF result.explanation # "" THEN << <<"Commentary", result.explanation>> >> ELSE << >>)
  \o << <<"Text", result.text>> >>

MutGenerateAnswer_Retry(question, context, service) ==
  [answer |-> IF service = "ok" THEN GeneratedAnswer ELSE DegradedAnswer,
   requests |-> IF service = "ok" THEN 1 ELSE 2]

\* APIClient.generate_answer: one request to the completion service
\* (_generate_answer_openrouter); when it raises, the fixed message
GenerateAnswer(question, context, service) ==
  [answer |-> IF service = "ok" THEN GeneratedAnswer ELSE DegradedAnswer,
   requests |-> 1]

RECURSIVE SumScores(_)
SumScores(results) ==
  IF results = << >> THEN Zero
  ELSE RatAdd(Head(results).score, SumScores(Tail(results)))

\* sum(scores) / len(scores)
Mean(results) ==
  LET total == SumScores(results)
  IN  Rat(total.num, total.den * Len(results))

MutErrorResponse_NoErrorField(message) ==
  [answer |-> RetryAnswer, confidence |-> Zero]

\* the return statement of the except clause of search_and_answer
ErrorResponse(message) ==
  [answer |-> RetryAnswer, confidence |-> Zero, error |-> message]

MutAnswerFromResults_NoEmptyCheck(question, search_results, service) ==
  LET top == Take(search_results, ContextTop)
      context_parts == [i \in 1..Len(top) |-> FormatContextEntry(top[i])]
      generated == GenerateAnswer(question, context_parts, service)
  IN  IF top = << >>
      THEN \* sum(...) / len(...) divides by zero after the generator ran
           [response |-> ErrorResponse("ZeroDivisionError"),
            stages |-> <<"context", "generate", "score">>,
            generate_requests |-> generated.requests, context |-> context_parts]
      ELSE [response |-> [answer |-> generated.answer, confidence |-> Mean(top),
                          context_used |-> Len(context_parts)],
            stages |-> <<"context", "generate", "score">>,
            generate_requests |-> generated.requests, context |-> context_parts]

MutAnswerFromResults_MeanOfAll(question, search_results, service) ==
  LET top == Take(search_results, ContextTop)
      context_parts == [i \in 1..Len(top) |-> FormatContextEntry(top[i])]
      generated == GenerateAnswer(question, context_parts, service)
  IN  IF search_results = << >>
      THEN [response |-> [answer |-> NoInformationAnswer, confidence |-> Zero],
            stages |-> << >>, generate_requests |-> 0, context |-> << >>]
      ELSE [response |-> [answer |-> generated.answer,
                          confidence |-> Mean(search_results),
                          context_used |-> Len(context_parts)],
            stages |-> <<"context", "generate", "score">>,
            generate_requests |-> generated.requests, context |-> context_parts]

\* search_and_answer once the search returned: the empty-result exit, the
\* context blocks of the first five results, the generator call and the
\* confidence; `stages` lists the stages entered after the search
AnswerFromResults(question, search_results, service) ==
  IF search_results = << >>
  THEN [response |-> [answer |-> NoInformationAnswer, confidence |-> Zero],
        stages |-> << >>, generate_requests |-> 0, context |-> << >>]
  ELSE LET top == Take(search_results, ContextTop)
           context_parts == [i \in 1..Len(top) |-> FormatContextEntry(top[i])]
           generated == GenerateAnswer(question, context_parts, service)
           avg_confidence == Mean(top)
       IN  [response |-> [answer |-> generated.answer, confidence |-> avg_confidence,
                          context_used |-> Len(context_parts)],
            stages |-> <<"context", "generate", "score">>,
            generate_requests |-> generated.requests, context |-> context_parts]

\* self.vector_store.get_collection_info of the service's store
VectorStoreCollectionInfo(store, ok) ==
  IF store.kind = "faiss" THEN FaissCollectionInfo(store.faiss)
  ELSE QdrantCollectionInfo(store.qdrant, ok)

\* info.get("points_count", 0), as initialize_database and
\* get_database_stats read the count
PointsCount(info) ==
  IF "points_count" \in DOMAIN info THEN info.points_count ELSE 0

\* self.vector_store.search of the service's store, store being
\* [kind, faiss, qdrant]: the backend chosen at construction answers.
VectorStoreSearch(store, query_embedding, limit, source_filter, ok) ==
  IF store.kind = "faiss"
  THEN FaissSearch(store.faiss, query_embedding, limit, source_filter)
  ELSE QdrantSearch(store.qdrant, query_embedding, limit, source_filter, ok)

\* RAGService.search_and_answer, as [response, stages, embed_requests,
\* generate_requests, results]: `stages` lists the stages entered, in order;
\* store is the service's vector store and ok whether its backend answers;
\* env is the embedding service's behaviour and service the completion
\* service's.
SearchAndAnswer(question, source_filter, store, env, service, ok) ==
  LET none == [embed_requests |-> 0, generate_requests |-> 0, results |-> << >>,
               context |-> << >>]
  IN
  IF question = NotAStr
  THEN \* question.lower() raises in the gate
       none @@ [response |-> ErrorResponse("AttributeError"), stages |-> <<"gate">>]
  ELSE IF ~Related[question]
  THEN none @@ [response |-> [answer |-> OffTopicAnswer, confidence |-> Zero],
                stages |-> <<"gate">>]
  ELSE
  LET normalized_question == NormalizeQuery(question)
      embedding == GetEmbedding(normalized_question, DefaultUseApi, DefaultMaxRetries, env)
  IN
  IF embedding.kind = "raise"
  THEN [none EXCEPT !.embed_requests = embedding.requests]
         @@ [response |-> ErrorResponse("UnicodeEncodeError"),
             stages |-> <<"gate", "normalize", "embed">>]
  ELSE
  LET searched == VectorStoreSearch(store, embedding.value, SearchLimit, source_filter, ok)
      search_results == searched.results
      rest == AnswerFromResults(question, search_results, service)
  IN
  IF searched.raised
  THEN [none EXCEPT !.embed_requests = embedding.requests]
         @@ [response |-> ErrorResponse("search raised"),
             stages |-> <<"gate", "normalize", "embed", "search">>]
  ELSE [response |-> rest.response,
       stages |-> <<"gate", "normalize", "embed", "search">> \o rest.stages,
       embed_requests |-> embedding.requests,
       generate_requests |-> rest.generate_requests,
       results |-> search_results, context |-> rest.context]

----------------------------------------------------------------------------
(* The inputs of the model                                                 *)

MaxStored == 3      \* add_documents is not called beyond this many stored vectors
MaxBatch == 2       \* documents per add_documents call
MaxLimit == 2       \* the limits of direct search calls
MaxRetriesBound == 3   \* max_retries ranges over 0..MaxRetriesBound
MaxTextLen == 4     \* the texts given to chunk_text have at most this many characters
MaxChunkSize == 3   \* chunk_size ranges over 1..MaxChunkSize
MaxOverlap == 3     \* overlap ranges over 0..MaxOverlap
MaxProcessed == 2   \* process_all_files yields at most this many documents
MaxIndexed == 6     \* the index a question is answered from holds at most this many entries
MaxConcurrent == 2  \* concurrent add_documents calls are not begun beyond this many vectors
MaxPersisted == 2   \* with an unreliable disk, add_documents is not called beyond this many vectors or payloads

DocDuty ==
  [text |-> TextDuty, source |-> "gita", chapter |-> "2", verse |-> "47",
   sanskrit |-> "karmanye vadhikaras te", translation |-> "dharma is duty",
   explanation |-> "", metadata |-> [verse_id |-> VerseId(<<"2">>, <<"4","7">>)]]
DocYoga ==
  [text |-> TextYoga, source |-> "yoga_sutras", chapter |-> "", verse |-> "",
   sanskrit |-> "", translation |-> "", explanation |-> "on stillness",
   metadata |-> [verse_id |-> << >>]]
DocRama ==
  [text |-> TextRama, source |-> "ramayana", chapter |-> "1", verse |-> "1",
   sanskrit |-> "", translation |-> "rama is the son of dasharatha",
   explanation |-> "", metadata |-> [verse_id |-> VerseId(<<"1">>, <<"1">>)]]
DocWar ==
  [text |-> TextWar, source |-> "mahabharata", chapter |-> "", verse |-> "",
   sanskrit |-> "", translation |-> "", explanation |-> "",
   metadata |-> [verse_id |-> << >>]]

\* a document as initialize_database hands it over: doc["embedding"] is
\* get_embedding(doc["text"], use_api=False)
Embedded(doc) == doc @@ [embedding |-> HashEmbeddingOf[doc.text].value]

\* the documents offered to add_documents: two with an embedding of the
\* index's dimension, one without the key, one of another dimension
InputDocuments ==
  { Embedded(DocDuty), Embedded(DocYoga),
    DocRama,
    DocWar @@ [embedding |-> [dim |-> 3, cyc |-> <<1, 2, 2>>]] }

\* a document whose text the hash embedder cannot encode
DocBroken ==
  [text |-> NormalizeQuery(QSurrogate), source |-> "gita", chapter |-> "1", verse |-> "2",
   sanskrit |-> "", translation |-> "", explanation |-> "",
   metadata |-> [verse_id |-> VerseId(<<"1">>, <<"2">>)]]

\* what process_all_files yields: documents without an "embedding" key, each
\* entry of the data files once
ProcessedDocuments == {DocDuty, DocYoga, DocBroken}
ProcessedRuns ==
  {run \in UNION {[1..n -> ProcessedDocuments] : n \in 0..MaxProcessed} :
     \A i, j \in DOMAIN run : run[i] = run[j] => i = j}

\* a document whose embedding is not a hash vector: components of either
\* sign, as an embedding model returns them
DocOpposed ==
  DocWar @@ [embedding |-> [dim |-> EmbeddingDim,
                            cyc |-> <<-1, -2, -2, -4, 0, 0, 0, 0, 0, 0, 0, 0, 0, 0, 0, 0>>]]

\* the documents of the indexes questions are answered from, and the lists
\* one add_documents call stores
IndexedDocuments == {Embedded(DocDuty), DocOpposed}
IndexedRuns == UNION {[1..n -> IndexedDocuments] : n \in 0..MaxIndexed}

Batches == UNION {[1..n -> InputDocuments] : n \in 1..MaxBatch}

Questions == StrQuestions \cup {NotAStr}

Filters == {NoFilter, "gita"}

\* the embedding service's answers to the successive requests of one call
Envs == [1..MaxRetriesBound -> ApiResponses]

EmbedTexts == {NormalizeQuery(QDharma), TextDuty, NormalizeQuery(QSurrogate)}

\* the characters of the texts given to chunk_text: a letter, two kinds of
\* whitespace, a sentence ender and a clause ender
ChunkAlphabet == {"a", " ", "\n", ".", ","}

ChunkTexts == UNION {[1..n -> ChunkAlphabet] : n \in 0..MaxTextLen}

SearchQueries ==
  { HashEmbeddingOf[TextDuty].value, HashEmbeddingOf[NormalizeQuery(QOm)].value,
    [dim |-> 3, cyc |-> <<1, 2, 2>>] }

\* self.vector_store.clear_collection of the service's store, as [store, raised]
VectorStoreClear(store, service, disk, cut) ==
  IF store.kind = "faiss"
  THEN [store |-> [store EXCEPT !.faiss = FaissClearCollection(store.faiss, disk, cut)],
        raised |-> FALSE]
  ELSE LET r == QdrantClearCollection(store.qdrant, service)
       IN  [store |-> [store EXCEPT !.qdrant = r.qdrant], raised |-> r.raised]

\* self.vector_store.add_documents of the service's store, as [store, raised]
VectorStoreAdd(store, documents, fail_at, disk, cut) ==
  IF store.kind = "faiss"
  THEN LET r == FaissAddDocuments(store.faiss, documents, disk, cut)
       IN  [store |-> [store EXCEPT !.faiss = r.store], raised |-> r.raised]
  ELSE LET r == QdrantAddDocuments(store.qdrant, documents, fail_at)
       IN  [store |-> [store EXCEPT !.qdrant = r.qdrant], raised |-> r.raised]

\* the embedding loop of initialize_database: every document whose
\* get_embedding(doc["text"], use_api=False) returned gets the key
\* "embedding"; a document whose embedding raised is left without it
EmbedDocuments(documents, env) ==
  [i \in 1..Len(documents) |->
     LET embedding == GetEmbedding(documents[i].text, FALSE, DefaultMaxRetries, env)
     IN  IF embedding.kind = "raise" THEN documents[i]
         ELSE documents[i] @@ [embedding |-> embedding.value]]

MutInitializeDatabase_ClearsBeforeAdding(force_reload, processed, store, info_ok, service, fail_at, disk, cut, env) ==
  LET valid_documents == WithEmbedding(EmbedDocuments(processed, env))
      cleared == IF force_reload /\ valid_documents # << >>
                 THEN VectorStoreClear(store, service, disk, cut)
                 ELSE [store |-> store, raised |-> FALSE]
      added == IF valid_documents # << >> /\ ~cleared.raised
               THEN VectorStoreAdd(cleared.store, valid_documents, fail_at, disk, cut)
               ELSE cleared
  IN  IF PointsCount(VectorStoreCollectionInfo(store, info_ok)) > 0 /\ ~force_reload
      THEN [store |-> store, raised |-> FALSE, steps |-> <<"info">>,
            valid_documents |-> << >>]
      ELSE [store |-> added.store, raised |-> added.raised, steps |-> <<"info">>,
            valid_documents |-> valid_documents]

\* RAGService.initialize_database, as [store, raised, steps, valid_documents]:
\* `steps` lists the calls made, in order; info_ok, service and fail_at are
\* the managed service's behaviour towards get_collection, the clear and the
\* upserts, disk and cut the disk's towards _save_index; `processed` is what
\* process_all_files yields.  What a store call raises leaves through the
\* outer except clause, which raises it again.
InitializeDatabase(force_reload, processed, store, info_ok, service, fail_at, disk, cut, env) ==
  LET info == VectorStoreCollectionInfo(store, info_ok)
      cleared == IF force_reload THEN VectorStoreClear(store, service, disk, cut)
                 ELSE [store |-> store, raised |-> FALSE]
      clear_steps == IF force_reload THEN <<"info", "clear">> ELSE <<"info">>
      valid_documents == WithEmbedding(EmbedDocuments(processed, env))
      added == VectorStoreAdd(cleared.store, valid_documents, fail_at, disk, cut)
  IN  IF PointsCount(info) > 0 /\ ~force_reload
      THEN [store |-> store, raised |-> FALSE, steps |-> <<"info">>,
            valid_documents |-> << >>]
      ELSE IF cleared.raised
      THEN [store |-> cleared.store, raised |-> TRUE, steps |-> clear_steps,
            valid_documents |-> << >>]
      ELSE IF processed = << >>
      THEN [store |-> cleared.store, raised |-> FALSE,
            steps |-> clear_steps \o <<"process">>, valid_documents |-> << >>]
      ELSE IF valid_documents = << >>
      THEN [store |-> cleared.store, raised |-> FALSE,
            steps |-> clear_steps \o <<"process", "embed">>,
            valid_documents |-> << >>]
      ELSE [store |-> added.store, raised |-> added.raised,
            steps |-> clear_steps \o <<"process", "embed", "add">>,
            valid_documents |-> valid_documents]

VerseSearchLimit == 50

\* RAGService.search_by_verse: the 50 best results for the hash vector of
\* "chapter C verse V", filtered for metadata.verse_id = "C.V"; the except
\* clause answers found = False with the error
SearchByVerse(chapter, verse, store, env, ok) ==
  LET verse_id == VerseId(chapter, verse)
      embedding == GetEmbedding(VerseQuery(chapter, verse), DefaultUseApi,
                                DefaultMaxRetries, env)
      searched == VectorStoreSearch(store, embedding.value, VerseSearchLimit, NoFilter, ok)
      exact_matches == SelectSeq(searched.results,
                                 LAMBDA result : result.metadata.verse_id = verse_id)
  IN  IF embedding.kind = "raise" THEN [found |-> FALSE, error |-> "UnicodeEncodeError"]
      ELSE IF searched.raised THEN [found |-> FALSE, error |-> "search raised"]
      ELSE IF exact_matches # << >>
      THEN LET result == exact_matches[1]
           IN  [found |-> TRUE, sanskrit |-> result.sanskrit,
                translation |-> result.translation, explanation |-> result.explanation,
                source |-> result.source, chapter |-> result.chapter,
                verse |-> result.verse]
      ELSE [found |-> FALSE]

----------------------------------------------------------------------------
(* TextChunker: chunk_text and _find_sentence_boundary.  Positions are     *)
(* Python's: 0-based, a slice [a:b] holds the positions a..b-1.            *)

\* an index of a slice of a str of length n, as Python resolves it: a
\* negative index counts from the end, and the result is clamped to 0..n
SliceIndex(i, n) == IF i < 0 THEN Max(i + n, 0) ELSE Min(i, n)

\* text[a:b]
Slice(text, a, b) ==
  SubSeq(text, SliceIndex(a, Len(text)) + 1, SliceIndex(b, Len(text)))

SentenceEnders == {".", "!", "?"}
ClauseEnders == {",", ";"}

\* match.end() of the first match of [punct]\s+ in s, 0 when there is none
PunctuationMatchEnd(s, punct) ==
  LET starts == {i \in 1..(Len(s) - 1) : s[i] \in punct /\ s[i + 1] \in Whitespace}
  IN  IF starts = {} THEN 0
      ELSE LET i == CHOOSE k \in starts : \A m \in starts : k <= m
           IN  CHOOSE j \in (i + 1)..Len(s) :
                 /\ \A k \in (i + 1)..j : s[k] \in Whitespace
                 /\ (j = Len(s) \/ s[j + 1] \notin Whitespace)

\* match.end() of re.search(r'\n\s*\n', s), 0 when there is none
ParagraphMatchEnd(s) ==
  LET closes(i) == {j \in (i + 1)..Len(s) :
                      /\ s[j] = "\n"
                      /\ \A k \in (i + 1)..(j - 1) : s[k] \in Whitespace}
      starts == {i \in 1..Len(s) : s[i] = "\n" /\ closes(i) # {}}
  IN  IF starts = {} THEN 0
      ELSE LET i == CHOOSE k \in starts : \A m \in starts : k <= m
           IN  CHOOSE j \in closes(i) : \A m \in closes(i) : m <= j

\* TextChunker._find_sentence_boundary(text, start, end)
FindSentenceBoundary(text, start, end) ==
  LET window == Slice(text, start, end)
      sentence == PunctuationMatchEnd(window, SentenceEnders)
      paragraph == ParagraphMatchEnd(window)
      clause == PunctuationMatchEnd(window, ClauseEnders)
  IN  IF sentence > 0 THEN start + sentence
      ELSE IF paragraph > 0 THEN start + paragraph
      ELSE IF clause > 0 THEN start + clause
      ELSE end

\* the positions [from, to) of text[start:end] that .strip() keeps
StrippedSpan(text, start, end) ==
  LET from == SliceIndex(start, Len(text))
      to == Max(SliceIndex(end, Len(text)), from)
      keep == {i \in from..(to - 1) : text[i + 1] \notin Whitespace}
  IN  IF keep = {} THEN [from |-> from, to |-> from]
      ELSE [from |-> CHOOSE i \in keep : \A j \in keep : i <= j,
            to |-> 1 + CHOOSE i \in keep : \A j \in keep : j <= i]

\* the end of the window that starts at `start`: lines 18-25 of chunk_text
ChunkWindowEnd(text, chunk_size, overlap, start) ==
  LET end == start + chunk_size
  IN  IF end < Len(text)
      THEN LET sentence_end == FindSentenceBoundary(text, end - overlap, end)
           IN  IF sentence_end > start THEN sentence_end ELSE end
      ELSE end

MutNextStart_NoProgressGuard(start, end, overlap) == end - overlap

\* start = max(start + 1, end - self.overlap)
NextStart(start, end, overlap) == Max(start + 1, end - overlap)

MutChunkTextReturnsEarly_StripsText(text, chunk_size) ==
  IF text = << >> \/ Len(text) < chunk_size
  THEN [returns |-> TRUE, chunks |-> IF Strip(text) # << >> THEN <<Strip(text)>> ELSE << >>]
  ELSE [returns |-> FALSE, chunks |-> << >>]

\* lines 11-12 of chunk_text: the early return for the empty and the short text
ChunkTextReturnsEarly(text, chunk_size) ==
  IF text = << >> \/ Len(text) < chunk_size
  THEN [returns |-> TRUE, chunks |-> IF text # << >> THEN <<text>> ELSE << >>]
  ELSE [returns |-> FALSE, chunks |-> << >>]

\* one iteration of the loop of chunk_text on the chunker's state c:
\* the window, the stripped chunk, the next start, the exit test
ChunkIteration(c) ==
  LET end == ChunkWindowEnd(c.text, c.chunk_size, c.overlap, c.start)
      chunk == Strip(Slice(c.text, c.start, end))
      span == StrippedSpan(c.text, c.start, end)
      start == NextStart(c.start, end, c.overlap)
  IN  [c EXCEPT !.chunks = IF chunk # << >> THEN Append(@, chunk) ELSE @,
                !.spans = IF chunk # << >> THEN Append(@, span) ELSE @,
                !.start = start,
                !.iterations = @ + 1,
                !.pc = IF start >= Len(c.text) THEN "done" ELSE "loop"]

\* the while loop of chunk_text from the chunker's state c on: the chunks
\* at the loop's exit
RECURSIVE ChunkLoop(_)
ChunkLoop(c) ==
  IF c.pc = "done" THEN c.chunks ELSE ChunkLoop(ChunkIteration(c))

\* TextChunker(chunk_size, overlap).chunk_text(text), as the list it returns
ChunkText(text, chunk_size, overlap) ==
  LET early == ChunkTextReturnsEarly(text, chunk_size)
  IN  IF early.returns THEN early.chunks
      ELSE ChunkLoop([pc |-> "loop", text |-> text, chunk_size |-> chunk_size,
                      overlap |-> overlap, start |-> 0, chunks |-> << >>,
                      spans |-> << >>, iterations |-> 0])

----------------------------------------------------------------------------
(* State                                                                   *)

VARIABLES
  vector_store,   \* RAGService.vector_store: "qdrant" or "faiss"
  is_available,   \* is_available of the VectorStore the constructor probed
  chunker,        \* a chunk_text call: its arguments, its locals, its position
  faiss,          \* the FaissVectorStore: [index, metadata, files]
  qdrant,         \* the Qdrant collection: [exists, points]
  op,             \* the last call made, with its arguments and its outcome
  threads         \* the add_documents calls under way at once: position and locals

vars == <<vector_store, is_available, chunker, faiss, qdrant, op, threads>>

\* the request threads that can be inside add_documents at the same time
Threads == {1, 2}

\* no add_documents call is under way in any thread
IdleThreads == [t \in Threads |-> [pc |-> "idle", docs |-> << >>]]

\* no chunk_text call is under way
IdleChunker ==
  [pc |-> "idle", text |-> << >>, chunk_size |-> 1, overlap |-> 0, start |-> 0,
   chunks |-> << >>, spans |-> << >>, iterations |-> 0]

EmptyFaiss ==
  [index |-> << >>, metadata |-> << >>, files |-> [index |-> Absent, metadata |-> Absent]]

EmptyQdrant == [exists |-> TRUE, points |-> << >>]

\* what the probe of VectorStore.__init__ meets: the client connects and the
\* collection is ensured, the client cannot be built, or
\* _ensure_collection_exists raises
Probes == {"ok", "connect_fails", "ensure_fails"}

MutProbeAvailable_IgnoresEnsure(probe) == probe # "connect_fails"

\* VectorStore.__init__: is_available after the probe
ProbeAvailable(probe) == probe = "ok"

\* RAGService.__init__: the managed store when it is available, else the
\* local store
SelectBackend(available) == IF available THEN "qdrant" ELSE "faiss"

\* RAGService.__init__: the managed store when its probe succeeded, else the
\* local store; FaissVectorStore.__init__ finds no persisted files
Init ==
  \E probe \in Probes :
    /\ is_available = ProbeAvailable(probe)
    /\ vector_store = SelectBackend(is_available)
    /\ chunker = IdleChunker
    /\ threads = IdleThreads
    /\ faiss = EmptyFaiss
    /\ qdrant = EmptyQdrant
    /\ op = [name |-> "init", probe |-> probe]

\* number of entries the selected store holds
Count == IF vector_store = "faiss" THEN Len(faiss.index)
         ELSE Cardinality(DOMAIN qdrant.points)

\* vector_store.add_documents(documents)
AddDocuments(documents, disk, cut, fail_at) ==
  /\ Count + Len(documents) <= MaxStored
  /\ IF vector_store = "faiss"
     THEN LET r == FaissAddDocuments(faiss, documents, disk, cut)
          IN  /\ faiss' = r.store
              /\ qdrant' = qdrant
              /\ op' = [name |-> "add_documents", documents |-> documents,
                        raised |-> r.raised]
     ELSE LET r == QdrantAddDocuments(qdrant, documents, fail_at)
          IN  /\ qdrant' = r.qdrant
              /\ faiss' = faiss
              /\ op' = [name |-> "add_documents", documents |-> documents,
                        raised |-> r.raised]
  /\ UNCHANGED <<threads, vector_store, is_available, chunker>>

\* vector_store.clear_collection()
ClearCollection(disk, cut, service) ==
  /\ IF vector_store = "faiss"
     THEN /\ faiss' = FaissClearCollection(faiss, disk, cut)
          /\ qdrant' = qdrant
          /\ op' = [name |-> "clear_collection", count |-> Count, raised |-> FALSE]
     ELSE LET r == QdrantClearCollection(qdrant, service)
          IN  /\ qdrant' = r.qdrant
              /\ faiss' = faiss
              /\ op' = [name |-> "clear_collection", count |-> Count,
                        raised |-> r.raised]
  /\ UNCHANGED <<threads, vector_store, is_available, chunker>>

\* the service's vector store: the backend chosen at construction and its contents
Store == [kind |-> vector_store, faiss |-> faiss, qdrant |-> qdrant]

\* vector_store.search(query_embedding, limit, source_filter); `ok` tells
\* whether the backend answered and `count` what the store held
Search(query_embedding, limit, source_filter, ok) ==
  /\ op' = [name |-> "search", query_embedding |-> query_embedding, limit |-> limit,
            source_filter |-> source_filter, ok |-> ok, count |-> Count]
             @@ VectorStoreSearch(Store, query_embedding, limit, source_filter, ok)
  /\ UNCHANGED <<threads, vector_store, is_available, chunker, faiss, qdrant>>

\* vector_store.get_collection_info()
GetCollectionInfo(ok) ==
  /\ op' = [name |-> "get_collection_info", ok |-> ok,
            info |-> VectorStoreCollectionInfo(Store, ok)]
  /\ UNCHANGED <<threads, vector_store, is_available, chunker, faiss, qdrant>>

\* rag_service.search_and_answer(question, source_filter)
SearchAndAnswerCall(question, source_filter, env, service, ok) ==
  LET r == SearchAndAnswer(question, source_filter, Store, env, service, ok)
  IN  /\ op' = [name |-> "search_and_answer", question |-> question,
                source_filter |-> source_filter, service |-> service,
                count |-> Count] @@ r
      /\ UNCHANGED <<threads, vector_store, is_available, chunker, faiss, qdrant>>

\* rag_service.search_by_verse(chapter, verse)
SearchByVerseCall(chapter, verse, env, ok) ==
  /\ op' = [name |-> "search_by_verse", chapter |-> chapter, verse |-> verse,
            ok |-> ok, response |-> SearchByVerse(chapter, verse, Store, env, ok)]
  /\ UNCHANGED <<threads, vector_store, is_available, chunker, faiss, qdrant>>

\* rag_service.initialize_database(force_reload); `before` is the store
\* the call found
InitializeDatabaseCall(force_reload, processed, info_ok, service, fail_at) ==
  LET r == InitializeDatabase(force_reload, processed, Store, info_ok, service,
                              fail_at, "ok", FALSE, [i \in 1..MaxRetriesBound |-> "ok"])
  IN  /\ faiss' = r.store.faiss
      /\ qdrant' = r.store.qdrant
      /\ op' = [name |-> "initialize_database", force_reload |-> force_reload,
                processed |-> processed, info_ok |-> info_ok, count |-> Count,
                before |-> Store, raised |-> r.raised, steps |-> r.steps,
                valid_documents |-> r.valid_documents]
      /\ UNCHANGED <<threads, vector_store, is_available, chunker>>

\* api_client.get_embedding(text, use_api, max_retries)
GetEmbeddingCall(text, use_api, max_retries, env) ==
  /\ op' = [name |-> "get_embedding", text |-> text, use_api |-> use_api,
            max_retries |-> max_retries, env |-> env]
             @@ GetEmbedding(text, use_api, max_retries, env)
  /\ UNCHANGED <<threads, vector_store, is_available, chunker, faiss, qdrant>>

\* the behaviours of the managed service, which only a Qdrant call meets
Answers == IF vector_store = "qdrant" THEN BOOLEAN ELSE {TRUE}
UpsertFailures == IF vector_store = "qdrant" THEN 0..1 ELSE {0}
ClearBehaviours ==
  IF vector_store = "qdrant" THEN {"ok", "delete_fails", "create_fails"} ELSE {"ok"}

\* The store and the orchestrator, called by one caller, one call at a time.
\* The disk is reliable here: _save_index swallows its own failures, which
\* reach neither the in-memory store nor the caller.
Next ==
  \/ \E documents \in Batches, fail_at \in UpsertFailures :
       AddDocuments(documents, "ok", FALSE, fail_at)
  \/ \E service \in ClearBehaviours :
       ClearCollection("ok", FALSE, service)
  \/ \E q \in SearchQueries, limit \in 0..MaxLimit, f \in Filters, ok \in Answers :
       Search(q, limit, f, ok)
  \/ \E ok \in Answers :
       GetCollectionInfo(ok)
  \/ \E ref \in VerseRefs, ok \in Answers :
       SearchByVerseCall(ref[1], ref[2], [i \in 1..MaxRetriesBound |-> "ok"], ok)
  \/ \E question \in Questions, f \in Filters, service \in {"ok", "fails"},
        ok \in Answers :
       SearchAndAnswerCall(question, f, [i \in 1..MaxRetriesBound |-> "ok"], service, ok)

Spec == Init /\ [][Next]_vars

\* The orchestrator's loader, called again and again on the store the
\* service chose at construction.
NextLoad ==
  \E force_reload \in BOOLEAN, processed \in ProcessedRuns, info_ok \in Answers,
     service \in ClearBehaviours, fail_at \in UpsertFailures :
    InitializeDatabaseCall(force_reload, processed, info_ok, service, fail_at)

SpecLoad == Init /\ [][NextLoad]_vars

\* a new process: FaissVectorStore() is constructed over the files the last
\* process left
Restart ==
  /\ vector_store = "faiss"
  /\ faiss' = LoadIndex(faiss.files)
  /\ op' = [name |-> "restart"]
  /\ UNCHANGED <<threads, vector_store, is_available, chunker, qdrant>>

\* the disk's behaviours towards one _save_index
DiskBehaviours == {"ok", "index_fails", "metadata_fails"}

\* the documents stored under an unreliable disk
PersistedDocuments == {Embedded(DocDuty), Embedded(DocYoga)}

\* the local store is the selected backend
InitPersist ==
  /\ is_available = ProbeAvailable("connect_fails")
  /\ vector_store = SelectBackend(is_available)
  /\ chunker = IdleChunker
  /\ threads = IdleThreads
  /\ faiss = LoadIndex(EmptyFaiss.files)
  /\ qdrant = EmptyQdrant
  /\ op = [name |-> "init", probe |-> "connect_fails"]

\* The local store over a disk that can fail any write, and restarts of the
\* process.
NextPersist ==
  \/ /\ Len(faiss.index) < MaxPersisted
     /\ Len(faiss.metadata) < MaxPersisted
     /\ \E doc \in PersistedDocuments, disk \in DiskBehaviours, cut \in BOOLEAN :
          AddDocuments(<<doc>>, disk, cut, 0)
  \/ \E disk \in DiskBehaviours, cut \in BOOLEAN :
       ClearCollection(disk, cut, "ok")
  \/ Restart

SpecPersist == InitPersist /\ [][NextPersist]_vars

MutStepAfter_PayloadFirst(pc) ==
  CASE pc = "enter" -> "extend"
    [] pc = "extend" -> "add"
    [] pc = "add" -> "write_index"
    [] pc = "write_index" -> "write_metadata"
    [] OTHER -> "idle"

\* the statements of FaissVectorStore.add_documents that touch the shared
\* store, in the order of the code: index.add, metadata.extend, and the two
\* writes of _save_index; then the call returns
StepAfter(pc) ==
  CASE pc = "enter" -> "add"
    [] pc = "add" -> "extend"
    [] pc = "extend" -> "write_index"
    [] pc = "write_index" -> "write_metadata"
    [] OTHER -> "idle"

\* the documents of the calls that have entered and appended nothing yet
Unadded(thr) ==
  LET n(t) == IF thr[t].pc = StepAfter("enter") THEN Len(thr[t].docs) ELSE 0
  IN  n(1) + n(2)

\* thread t enters add_documents(documents): the loop builds the call's own
\* lists of normalised vectors and payloads
ThreadEnters(t, documents) ==
  /\ vector_store = "faiss"
  /\ threads[t].pc = "idle"
  /\ WithEmbedding(documents) # << >>
  /\ threads' = [threads EXCEPT ![t] = [pc |-> StepAfter("enter"),
                                        docs |-> WithEmbedding(documents)]]
  /\ op' = [name |-> "thread", thread |-> t, step |-> "enter"]
  /\ UNCHANGED <<vector_store, is_available, chunker, faiss, qdrant>>

\* self.index.add(embeddings_array) of thread t
ThreadIndexAdd(t) ==
  /\ threads[t].pc = "add"
  /\ faiss' = [faiss EXCEPT !.index =
                 @ \o [i \in 1..Len(threads[t].docs) |->
                         Normalize(threads[t].docs[i].embedding)]]
  /\ threads' = [threads EXCEPT ![t].pc = StepAfter("add")]
  /\ op' = [name |-> "thread", thread |-> t, step |-> "add"]
  /\ UNCHANGED <<vector_store, is_available, chunker, qdrant>>

\* self.metadata.extend(metadata_batch) of thread t
ThreadMetadataExtend(t) ==
  /\ threads[t].pc = "extend"
  /\ faiss' = [faiss EXCEPT !.metadata =
                 @ \o [i \in 1..Len(threads[t].docs) |-> Payload(threads[t].docs[i])]]
  /\ threads' = [threads EXCEPT ![t].pc = StepAfter("extend")]
  /\ op' = [name |-> "thread", thread |-> t, step |-> "extend"]
  /\ UNCHANGED <<vector_store, is_available, chunker, qdrant>>

\* faiss.write_index(self.index, self.index_file) of thread t's _save_index
ThreadWriteIndex(t) ==
  /\ threads[t].pc = "write_index"
  /\ faiss' = [faiss EXCEPT !.files.index = Written(faiss.index)]
  /\ threads' = [threads EXCEPT ![t].pc = StepAfter("write_index")]
  /\ op' = [name |-> "thread", thread |-> t, step |-> "write_index"]
  /\ UNCHANGED <<vector_store, is_available, chunker, qdrant>>

\* json.dump(self.metadata, f) of thread t's _save_index; the call returns
ThreadWriteMetadata(t) ==
  /\ threads[t].pc = "write_metadata"
  /\ faiss' = [faiss EXCEPT !.files.metadata = Written(faiss.metadata)]
  /\ threads' = [threads EXCEPT ![t] = [pc |-> StepAfter("write_metadata"),
                                        docs |-> << >>]]
  /\ op' = [name |-> "thread", thread |-> t, step |-> "write_metadata"]
  /\ UNCHANGED <<vector_store, is_available, chunker, qdrant>>

\* Two request threads calling add_documents on the local store with no
\* lock around the call: the statements of the two calls interleave.
NextConcurrent ==
  \/ /\ Len(faiss.index) + Unadded(threads) < MaxConcurrent
     /\ \E t \in Threads, doc \in PersistedDocuments : ThreadEnters(t, <<doc>>)
  \/ \E t \in Threads : ThreadIndexAdd(t)
  \/ \E t \in Threads : ThreadMetadataExtend(t)
  \/ \E t \in Threads : ThreadWriteIndex(t)
  \/ \E t \in Threads : ThreadWriteMetadata(t)

SpecConcurrent == InitPersist /\ [][NextConcurrent]_vars

\* The service answering questions from an index that one add_documents
\* call filled.
InitAnswer ==
  \E probe \in Probes, documents \in IndexedRuns :
    /\ is_available = ProbeAvailable(probe)
    /\ vector_store = SelectBackend(is_available)
    /\ chunker = IdleChunker
    /\ threads = IdleThreads
    /\ faiss = FaissAddDocuments(EmptyFaiss, IF vector_store = "faiss" THEN documents ELSE << >>,
                                 "ok", FALSE).store
    /\ qdrant = QdrantAddDocuments(EmptyQdrant,
                                   IF vector_store = "qdrant" THEN documents ELSE << >>,
                                   0).qdrant
    /\ op = [name |-> "init", probe |-> probe]

\* the questions answered from these indexes: one near the stored text,
\* one farther from it, one the gate turns away
AnswerQuestions == {QDharma, QKaunHai, QCricket}

NextAnswer ==
  \E question \in AnswerQuestions, f \in Filters, ok \in Answers :
    SearchAndAnswerCall(question, f, [i \in 1..MaxRetriesBound |-> "ok"], "ok", ok)

SpecAnswer == InitAnswer /\ [][NextAnswer]_vars

\* The embedder alone: get_embedding over texts, both paths, retry budgets
\* and every behaviour of the embedding service.
InitEmbed ==
  /\ vector_store = "faiss"
  /\ is_available = FALSE
  /\ chunker = IdleChunker
  /\ threads = IdleThreads
  /\ faiss = EmptyFaiss
  /\ qdrant = EmptyQdrant
  /\ op = [name |-> "init"]

NextEmbed ==
  \E text \in EmbedTexts, use_api \in BOOLEAN, max_retries \in 0..MaxRetriesBound,
     env \in Envs :
    GetEmbeddingCall(text, use_api, max_retries, env)

SpecEmbed == InitEmbed /\ [][NextEmbed]_vars

\* TextChunker(chunk_size, overlap).chunk_text(text) is called
ChunkTextCall(text, chunk_size, overlap) ==
  /\ chunker.pc = "idle"
  /\ chunker' = [IdleChunker EXCEPT !.pc = "called", !.text = text,
                                    !.chunk_size = chunk_size, !.overlap = overlap]
  /\ UNCHANGED <<threads, vector_store, is_available, faiss, qdrant, op>>

\* chunk_text up to the loop: the early return of lines 11-12, else the
\* locals of lines 14-15
ChunkTextEnter ==
  /\ chunker.pc = "called"
  /\ LET early == ChunkTextReturnsEarly(chunker.text, chunker.chunk_size)
     IN  chunker' =
           IF early.returns
           THEN [chunker EXCEPT !.pc = "done", !.chunks = early.chunks,
                                !.spans = [i \in 1..Len(early.chunks) |->
                                             [from |-> 0, to |-> Len(chunker.text)]]]
           ELSE [chunker EXCEPT !.pc = "loop", !.start = 0, !.chunks = << >>]
  /\ UNCHANGED <<threads, vector_store, is_available, faiss, qdrant, op>>

\* one iteration of the while loop of chunk_text
ChunkTextLoop ==
  /\ chunker.pc = "loop"
  /\ chunker.start < Len(chunker.text)
  /\ chunker' = ChunkIteration(chunker)
  /\ UNCHANGED <<threads, vector_store, is_available, faiss, qdrant, op>>

\* The chunker alone: one chunk_text call on a TextChunker(chunk_size,
\* overlap), for every text, chunk size and overlap of the bounds.
InitChunk ==
  /\ vector_store = "faiss"
  /\ is_available = FALSE
  /\ faiss = EmptyFaiss
  /\ qdrant = EmptyQdrant
  /\ op = [name |-> "init"]
  /\ chunker = IdleChunker
  /\ threads = IdleThreads

NextChunk ==
  \/ /\ chunker.pc = "idle"
     /\ \E text \in ChunkTexts, chunk_size \in 1..MaxChunkSize, overlap \in 0..MaxOverlap :
          ChunkTextCall(text, chunk_size, overlap)
  \/ ChunkTextEnter
  \/ ChunkTextLoop

SpecChunk == InitChunk /\ [][NextChunk]_vars

----------------------------------------------------------------------------
(* Claims about the stores                                                 *)

IsCall(name) == op.name = name

\* C1: on the local backend, in every state reached from the empty store by
\* add_documents calls (raising ones included), search calls and
\* clear_collection calls, the number of stored vectors equals the number of
\* payload entries.
C1_VectorsMatchPayloads == Len(faiss.index) = Len(faiss.metadata)

\* an add_documents call raised on a local store that already holds vectors
C1_Witness ==
  /\ vector_store = "faiss"
  /\ IsCall("add_documents") /\ op.raised
  /\ Len(faiss.index) >= 1

\* C2: add_documents only appends, on both backends: a call that returns
\* adds one entry per document (that has an embedding) and leaves every
\* entry stored before it in place and unchanged.
C2_AppendOnly ==
  [][(op'.name = "add_documents" /\ ~op'.raised)
       => /\ Count' = Count + Len(WithEmbedding(op'.documents))
          /\ \A i \in 1..Len(faiss.index) :
               /\ i <= Len(faiss'.index)
               /\ faiss'.index[i] = faiss.index[i]
               /\ faiss'.metadata[i] = faiss.metadata[i]
          /\ \A id \in DOMAIN qdrant.points :
               /\ id \in DOMAIN qdrant'.points
               /\ qdrant'.points[id] = qdrant.points[id]]_vars

----------------------------------------------------------------------------
(* Claims about search_and_answer                                          *)

IsStr(question) == question # NotAStr

Accepted(question) == IsStr(question) /\ Related[question]

Canonical == <<"gate", "normalize", "embed", "search", "context", "generate", "score">>

Entered(stage) == \E i \in 1..Len(op.stages) : op.stages[i] = stage

\* C3: a question that contains an off-topic keyword gets the canned
\* off-topic answer with confidence 0, whatever the index holds and whatever
\* else the question contains, and no embedding, search or generator call
\* is made.
C3_OffTopicShortCircuit ==
  (/\ IsCall("search_and_answer")
   /\ IsStr(op.question)
   /\ AnyIn(modern_keywords, Lower(op.question)))
    => /\ op.response = [answer |-> OffTopicAnswer, confidence |-> Zero]
       /\ op.stages = <<"gate">>
       /\ op.embed_requests = 0
       /\ op.generate_requests = 0

\* an off-topic question that also holds a domain keyword, on a filled index
C3_Witness ==
  /\ IsCall("search_and_answer")
  /\ op.question = QCricketUpper
  /\ AnyIn(hindu_keywords, Lower(op.question))
  /\ op.count >= 1
  /\ op.response.answer = OffTopicAnswer

\* C4: the stages of search_and_answer run in the order gate, normalize,
\* embed, search, context, generate, score: the embedder runs only after the
\* gate accepted, the search only after the embedding returned, the generator
\* is requested at most once and only after the search returned a result, and
\* no stage runs after a short-circuit exit.
C4_StageOrder ==
  IsCall("search_and_answer")
    => /\ op.stages = SubSeq(Canonical, 1, Len(op.stages))
       /\ Entered("embed") => Accepted(op.question)
       /\ Entered("search") => HashEmbeddingOf[NormalizeQuery(op.question)].kind # "raise"
       /\ Entered("generate") => Len(op.results) >= 1
       /\ op.generate_requests = (IF Entered("generate") THEN 1 ELSE 0)
       /\ op.response.answer = OffTopicAnswer => op.stages = <<"gate">>
       /\ op.response.answer = NoInformationAnswer => op.stages = SubSeq(Canonical, 1, 4)
       /\ op.response.answer = RetryAnswer => Len(op.stages) <= 3
       /\ Len(op.results) = 0 => ~Entered("context")

\* the whole pipeline ran and the completion service failed
C4_Witness ==
  /\ IsCall("search_and_answer")
  /\ op.stages = Canonical
  /\ op.service = "fails"

\* C5: for every question the gate accepts, search_and_answer attempts a
\* request to the embedding service (use_api true) and falls back to the hash
\* vector only when the attempts failed.
C5_QueryEmbeddingUsesApi ==
  (IsCall("search_and_answer") /\ Accepted(op.question))
    => op.embed_requests >= 1

CannedAnswers == {OffTopicAnswer, NoInformationAnswer, RetryAnswer, DegradedAnswer}

\* C7: every failure response of search_and_answer (off-topic rejection,
\* empty search result, internal error, failed generator call) carries a
\* canned answer and confidence 0.
C7_FailuresHaveZeroConfidence ==
  (IsCall("search_and_answer") /\ op.response.answer # GeneratedAnswer)
    => /\ op.response.answer \in CannedAnswers
       /\ op.response.confidence = Zero

\* a stage of the call raised: the gate on a question that is no str, the
\* embedder on a text that cannot be encoded
StageRaised ==
  \/ ~IsStr(op.question)
  \/ (Accepted(op.question) /\ ~Encodable(NormalizeQuery(op.question)))

\* C8: search_and_answer never propagates an exception: when a stage raises,
\* the call returns the generic retry answer, confidence 0 and an error field
\* holding the message.
C8_ErrorsAreReturned ==
  (IsCall("search_and_answer") /\ StageRaised)
    => /\ DOMAIN op.response = {"answer", "confidence", "error"}
       /\ op.response.answer = RetryAnswer
       /\ op.response.confidence = Zero
       /\ op.response.error \in {"AttributeError", "UnicodeEncodeError"}
       /\ op.generate_requests = 0

\* the embedder raised on an accepted question, on a filled index
C8_Witness ==
  /\ IsCall("search_and_answer")
  /\ op.question = QSurrogate
  /\ op.count >= 1
  /\ op.response.error = "UnicodeEncodeError"

----------------------------------------------------------------------------
(* Claims about get_embedding                                              *)

\* the requests of a call that the service answered with an embedding
OkAttempts == {k \in 1..op.max_retries : op.env[k] = "ok"}

C11_EveryTextHasHashVector ==
  (IsCall("get_embedding") /\ ~op.use_api)
    => /\ op.kind = "hash"
       /\ op.value.dim = 1024

\* C11: the fallback embedding is a function of the text alone: for every
\* text that text.encode() accepts, get_embedding(text, use_api=False) sends
\* no request and returns a vector of exactly 1024 components, component i
\* (from 0) being byte (i mod 16) of the text's 16-byte digest over 255, so
\* that every component lies in [0,1] and the vector is the same at every
\* call; for a text that cannot be encoded the call raises.
C11_HashEmbeddingOfText ==
  (IsCall("get_embedding") /\ ~op.use_api)
    => IF Encodable(op.text)
       THEN /\ op.kind = "hash"
            /\ op.requests = 0
            /\ op.value.dim = 1024
            /\ Len(Md5Digest(op.text)) = 16
            /\ \A i \in 0..1023 :
                 /\ At(op.value, i + 1) = Md5Digest(op.text)[(i % 16) + 1]
                 /\ At(op.value, i + 1) \in 0..HashScale
       ELSE op.kind = "raise"

\* the hash path returned the vector of a text whose digest has distinct bytes
C11_Witness ==
  /\ IsCall("get_embedding") /\ ~op.use_api
  /\ op.text = TextDuty
  /\ op.kind = "hash"
  /\ At(op.value, 1009) = 1 /\ At(op.value, 1012) = 4 /\ At(op.value, 1024) = 0

----------------------------------------------------------------------------
(* Claims about search                                                     *)

\* C12: for every index state, query vector, limit >= 0 and optional source
\* filter, search returns at most limit results, on both backends.
C12_AtMostLimit ==
  IsCall("search") => Len(op.results) <= op.limit

\* the local store holds more entries than the limit and search stopped at
\* the limit
C12_Witness ==
  /\ IsCall("search")
  /\ vector_store = "faiss"
  /\ op.source_filter = NoFilter
  /\ op.limit = 1
  /\ Len(faiss.index) = 3
  /\ Len(op.results) = 1

\* C13: every result search returns has a score at or above the configured
\* similarity floor (SIMILARITY_THRESHOLD = 0.65), on the local backend as
\* well as on the managed backend.
C13_ScoresMeetFloor ==
  IsCall("search")
    => \A n \in 1..Len(op.results) : RatLeq(SimilarityThreshold, op.results[n].score)

\* the backend call of a search failed: the managed service did not answer,
\* or the index rejected the query (another dimension, no hit asked for)
BackendCallFailed ==
  \/ ~op.ok
  \/ op.query_embedding.dim # EmbeddingDim
  \/ (op.limit = 0 /\ op.count > 0)

\* C14: search never raises to its caller on either backend: it returns the
\* empty list when the index is empty and the empty list when the backend
\* call fails.
C14_SearchNeverRaises ==
  IsCall("search")
    => /\ ~op.raised
       /\ op.count = 0 => op.results = << >>
       /\ BackendCallFailed => op.results = << >>

\* the managed service failed to answer a search on a filled collection
C14_Witness ==
  /\ IsCall("search")
  /\ vector_store = "qdrant"
  /\ ~op.ok
  /\ op.count >= 1
  /\ op.query_embedding.dim = EmbeddingDim /\ op.limit >= 1
  /\ op.results = << >>

----------------------------------------------------------------------------
(* Claims about add_documents and clear_collection                         *)

\* a document of the batch reaches the index with an embedding of another
\* dimension than the index's
HasDimensionMismatch(documents) ==
  \E i \in 1..Len(documents) :
    HasEmbedding(documents[i]) /\ documents[i].embedding.dim # EmbeddingDim

\* C15: add_documents raises to the caller when a document's embedding
\* dimension differs from the index dimension, and on the local backend the
\* failing call stores nothing: the stored vectors, the payloads and the
\* files are what they were before the call.
C15_DimensionMismatchRaises ==
  [][(op'.name = "add_documents" /\ HasDimensionMismatch(op'.documents))
       => /\ op'.raised
          /\ vector_store = "faiss" => faiss' = faiss]_vars

\* a batch of one document of the right dimension and one of another
\* dimension was refused by a local store that already held an entry
C15_Witness ==
  /\ IsCall("add_documents") /\ op.raised
  /\ vector_store = "faiss"
  /\ Len(op.documents) = 2
  /\ HasEmbedding(op.documents[1]) /\ op.documents[1].embedding.dim = EmbeddingDim
  /\ HasEmbedding(op.documents[2]) /\ op.documents[2].embedding.dim # EmbeddingDim
  /\ Len(faiss.index) = 1 /\ Len(faiss.metadata) = 1

\* the last call was a clear_collection that returned
Cleared == op.name = "clear_collection" /\ ~op.raised

\* C16: after clear_collection returns, whatever was stored before, the next
\* get_collection_info reports a count of 0, the next search returns the
\* empty list, and a next clear_collection that returns leaves the same
\* empty state.
C16_ClearEmpties ==
  [][Cleared
       => /\ op'.name = "get_collection_info" => PointsCount(op'.info) = 0
          /\ op'.name = "search" => op'.results = << >>
          /\ (op'.name = "clear_collection" /\ ~op'.raised)
               => (faiss' = faiss /\ qdrant' = qdrant)
          /\ Count = 0
          /\ Len(faiss.index) = 0 /\ Len(faiss.metadata) = 0]_vars

\* clear_collection returned on a store that held entries
C16_Witness ==
  /\ Cleared
  /\ op.count >= 2
  /\ Count = 0

----------------------------------------------------------------------------
(* Claims about the choice of the backend                                  *)

\* C17: the orchestrator selects its vector backend exactly once, at
\* construction: the managed backend if the availability probe (connect plus
\* collection-ensure) succeeded, the local backend on any probe failure; no
\* later call, failing or not, changes the selection or the outcome of the
\* probe.
C17_BackendSelectedOnce ==
  [][/\ op.name = "init" => (is_available <=> op.probe = "ok")
     /\ vector_store = (IF is_available THEN "qdrant" ELSE "faiss")
     /\ vector_store' = vector_store
     /\ is_available' = is_available]_vars

\* a call to the selected managed backend failed and the selection stayed
C17_Witness ==
  /\ vector_store = "qdrant" /\ is_available
  /\ IsCall("search") /\ ~op.ok

----------------------------------------------------------------------------
(* Claims about chunk_text                                                 *)

\* the positions of the text that lie inside a returned chunk
Covered ==
  {i \in 0..(Len(chunker.text) - 1) :
     \E n \in 1..Len(chunker.spans) :
       chunker.spans[n].from <= i /\ i < chunker.spans[n].to}

\* C18: for any text and chunk_size > overlap >= 0, once chunk_text has
\* returned, every character position of the text lies inside at least one
\* returned chunk, whitespace at the ends of the text and at the edge of a
\* window included.
C18_EveryPositionCovered ==
  (chunker.pc = "done" /\ chunker.chunk_size > chunker.overlap)
    => Covered = 0..(Len(chunker.text) - 1)

\* C19: chunk_text terminates for every chunk_size >= 1 and overlap >= 0,
\* overlap >= chunk_size and texts without a boundary character included:
\* every iteration of the loop strictly increases the window start, the
\* loop is left as soon as the start reaches len(text), and it runs at most
\* len(text) times.
C19_ChunkTextTerminates ==
  [][/\ ChunkTextLoop
          => /\ chunker'.start > chunker.start
             /\ chunker'.pc = (IF chunker'.start >= Len(chunker.text)
                               THEN "done" ELSE "loop")
     /\ chunker'.iterations <= Len(chunker'.text)]_vars

\* the loop ended after as many iterations as the text has characters, with
\* an overlap larger than the chunk size and no boundary character
C19_Witness ==
  /\ chunker.pc = "done"
  /\ chunker.text = <<"a", "a", "a", "a">>
  /\ chunker.overlap > chunker.chunk_size
  /\ chunker.iterations = 4

\* C20: for every non-empty text shorter than chunk_size, chunk_text returns
\* exactly [text], the text unchanged; for the empty text it returns the
\* empty sequence.
C20_ShortTextIsOneChunk ==
  (chunker.pc = "done" /\ Len(chunker.text) < chunker.chunk_size)
    => /\ chunker.iterations = 0
       /\ chunker.chunks = (IF chunker.text = << >> THEN << >> ELSE <<chunker.text>>)

\* a short text that begins and ends with whitespace came back as it was
C20_Witness ==
  /\ chunker.pc = "done"
  /\ chunker.text = <<" ", "\n">>
  /\ chunker.chunk_size = 3
  /\ chunker.chunks = << <<" ", "\n">> >>

\* C21: chunking is idempotent on its own output: once chunk_text(text) has
\* returned, with chunk_size > overlap, every chunk c it returned satisfies
\* chunk_text(c) = [c], a chunk of exactly chunk_size characters included.
C21_RechunkingIsNoOp ==
  (chunker.pc = "done" /\ chunker.chunk_size > chunker.overlap)
    => \A n \in 1..Len(chunker.chunks) :
         ChunkText(chunker.chunks[n], chunker.chunk_size, chunker.overlap)
           = <<chunker.chunks[n]>>

----------------------------------------------------------------------------
(* Claims about search_by_verse                                            *)

\* the payloads of the entries the selected store holds
StoredPayloads ==
  IF vector_store = "faiss"
  THEN {faiss.metadata[i] : i \in 1..Len(faiss.metadata)}
  ELSE {qdrant.points[id].payload : id \in DOMAIN qdrant.points}

\* the stored entries whose metadata.verse_id is the one asked for
StoredVerse == {p \in StoredPayloads : p.metadata.verse_id = VerseId(op.chapter, op.verse)}

\* C22: search_by_verse(chapter, verse) returns found = true, with the
\* fields of a stored chunk whose metadata.verse_id is "chapter.verse",
\* whenever the index holds such a chunk, and found = false exactly when no
\* stored chunk has that verse_id.  Stated for the calls in which the store
\* answers the search.
C22_VerseFoundIffStored ==
  (IsCall("search_by_verse") /\ op.ok)
    => /\ op.response.found <=> StoredVerse # {}
       /\ op.response.found
            => \E p \in StoredVerse :
                 /\ op.response.sanskrit = p.sanskrit
                 /\ op.response.translation = p.translation
                 /\ op.response.explanation = p.explanation
                 /\ op.response.source = p.source
                 /\ op.response.chapter = p.chapter
                 /\ op.response.verse = p.verse

----------------------------------------------------------------------------
(* Claims about initialize_database                                        *)

\* C23: initialize_database(force_reload=False) is idempotent: when the
\* index already holds at least one entry, it returns without clearing,
\* embedding or adding anything, and the store is what it was.
C23_LoadIsIdempotent ==
  (IsCall("initialize_database") /\ ~op.force_reload /\ op.count >= 1)
    => /\ ~op.raised
       /\ op.steps = <<"info">>
       /\ Store = op.before

----------------------------------------------------------------------------
(* Claims about the context and the confidence of an answer                 *)

\* the call went through the search and found results
Answered == IsCall("search_and_answer") /\ Entered("score")

\* the number of results the answer is built from
ContextCount == Min(ContextTop, Len(op.results))

\* C24: with n >= 1 results, search_and_answer uses exactly the first
\* min(5, n) results as context, reports context_used = min(5, n), and its
\* confidence is the arithmetic mean of exactly those results' scores.
C24_ContextIsFirstFive ==
  Answered
    => LET total == SumScores(SubSeq(op.results, 1, ContextCount))
       IN  /\ Len(op.results) >= 1
           /\ op.response.context_used = ContextCount
           /\ op.context = [i \in 1..ContextCount |-> FormatContextEntry(op.results[i])]
           /\ op.response.confidence.num * total.den * ContextCount
                = total.num * op.response.confidence.den

\* an answer from more than five results, whose scores beyond the fifth
\* would change the mean
C24_Witness ==
  /\ Answered
  /\ Len(op.results) > ContextTop
  /\ op.response.context_used = ContextTop
  /\ Mean(op.results) # op.response.confidence

\* C25: every response of search_and_answer has a confidence within [0, 1],
\* whatever the index holds and whatever scores the backend returns.
C25_ConfidenceInUnitInterval ==
  IsCall("search_and_answer")
    => /\ RatLeq(Zero, op.response.confidence)
       /\ RatLeq(op.response.confidence, Rat(1, 1))

----------------------------------------------------------------------------
(* Claims about the persisted files of the local store                      *)

\* C26: after a restart of the local backend the store is either empty or
\* holds as many vectors as payload entries, also when an earlier save
\* failed between the two files or only one file can be read.
C26_RestartIsConsistent ==
  IsCall("restart") => Len(faiss.index) = Len(faiss.metadata)

\* C27: on the local backend, after every add_documents that stored a
\* document and after every clear_collection that returns, the two files
\* hold the vectors and the payloads of the memory, in the same order, so
\* that a restart reproduces the store.
C27_FilesMirrorMemory ==
  (/\ vector_store = "faiss"
   /\ \/ IsCall("add_documents") /\ ~op.raised /\ WithEmbedding(op.documents) # << >>
      \/ Cleared)
    => /\ faiss.files.index = Written(faiss.index)
       /\ faiss.files.metadata = Written(faiss.metadata)
       /\ LoadIndex(faiss.files) = faiss

----------------------------------------------------------------------------
(* Claims about concurrent add_documents calls                              *)

\* the vectors appended whose payloads are still to come: the documents of
\* the calls between index.add and metadata.extend
Unpaired ==
  LET n(t) == IF threads[t].pc = "extend" THEN Len(threads[t].docs) ELSE 0
  IN  n(1) + n(2)

\* some vector stands beside the payload of a document with another vector
Mispaired ==
  \E i \in 1..Min(Len(faiss.index), Len(faiss.metadata)) :
    faiss.index[i] # Normalize(HashEmbeddingOf[faiss.metadata[i].text].value)

\* C28: two add_documents calls that run at once on the local backend are
\* not safe.  The vector count exceeds the payload count by the documents of
\* the calls that stand between their vector-append and their
\* payload-append, so the counts differ whenever a call stands there; and
\* the appends of the two calls interleave so that a vector ends up beside
\* another document's payload (the witness).
C28_CountsDifferBetweenAppends ==
  /\ Len(faiss.index) - Len(faiss.metadata) = Unpaired
  /\ (\E t \in Threads : threads[t].pc = "extend")
       => Len(faiss.index) # Len(faiss.metadata)

\* both calls have returned and the first vector belongs to the second payload
C28_Witness ==
  /\ \A t \in Threads : threads[t].pc = "idle"
  /\ Len(faiss.index) = 2
  /\ Len(faiss.metadata) = 2
  /\ Mispaired
  /\ faiss.files.index = Written(faiss.index)
  /\ faiss.files.metadata = Written(faiss.metadata)

----------------------------------------------------------------------------
(* Claims about the source filter of the local store                        *)

\* the positions of the stored chunks whose source is the filter's
MatchingSource ==
  {i \in 1..Len(faiss.metadata) : faiss.metadata[i].source = op.source_filter}

\* the score of stored chunk i for the query of the call
StoredScore(i) == Cosine(Normalize(op.query_embedding), faiss.index[i])

\* C29: on the local backend, a search with a source filter returns exactly
\* the min(limit, m) best-scoring chunks among the m stored chunks of that
\* source, best first, and no chunk of another source.
C29_FilterReturnsBestOfSource ==
  (/\ IsCall("search")
   /\ vector_store = "faiss"
   /\ op.source_filter # NoFilter
   /\ op.limit >= 1
   /\ op.query_embedding.dim = EmbeddingDim)
    => /\ Len(op.results) = Min(op.limit, Cardinality(MatchingSource))
       /\ \A n \in 1..Len(op.results) :
            /\ op.results[n].source = op.source_filter
            /\ Cardinality({i \in MatchingSource :
                              RatLess(op.results[n].score, StoredScore(i))}) < n
       /\ \A n \in 1..(Len(op.results) - 1) :
            ~RatLess(op.results[n].score, op.results[n + 1].score)

----------------------------------------------------------------------------
(* Claims about a forced reload                                             *)

\* initialize_database(force_reload=True) returned
Reloaded == IsCall("initialize_database") /\ op.force_reload /\ ~op.raised

\* the documents of the processing run whose text the embedder accepts
EmbeddedRun == SelectSeq(op.processed, LAMBDA doc : Encodable(doc.text))

\* the vector the store keeps for a document of the run
RunVector(doc) == Normalize(HashEmbedding(doc.text).value)

\* C30: after initialize_database(force_reload=True) returns, the index
\* holds exactly the documents of this processing run whose embedding
\* succeeded, in processing order, and nothing stored before; a document
\* whose embedding raised is skipped; a run without documents leaves the
\* index empty.
C30_ReloadReplacesIndex ==
  Reloaded
    => IF vector_store = "faiss"
       THEN /\ Len(faiss.index) = Len(EmbeddedRun)
            /\ Len(faiss.metadata) = Len(EmbeddedRun)
            /\ \A i \in 1..Len(EmbeddedRun) :
                 /\ faiss.metadata[i] = Payload(EmbeddedRun[i])
                 /\ faiss.index[i] = RunVector(EmbeddedRun[i])
       ELSE /\ DOMAIN qdrant.points = 0..(Len(EmbeddedRun) - 1)
            /\ \A i \in 1..Len(EmbeddedRun) :
                 /\ qdrant.points[i - 1].payload = Payload(EmbeddedRun[i])
                 /\ qdrant.points[i - 1].vector = RunVector(EmbeddedRun[i])

\* a reload over a non-empty index whose run has a document that cannot be
\* embedded before one that can, and stores the latter alone
C30_Witness ==
  /\ Reloaded
  /\ op.count = 2
  /\ Len(op.processed) = 2
  /\ ~Encodable(op.processed[1].text)
  /\ Len(EmbeddedRun) = 1
  /\ Count = 1
  /\ op.steps = <<"info", "clear", "process", "embed", "add">>

====
